---- MODULE Spec2Model ----
(***************************************************************************)
(* Conditional survey session engine of the Levi's chatbot backend.        *)
(*                                                                         *)
(* Models backend/app/models/survey.py (Condition, Question, SurveyState,  *)
(* Survey) and backend/app/services/survey_service.py (SurveyService, the  *)
(* service that backend/app/main.py instantiates).                         *)
(***************************************************************************)
EXTENDS Integers, Sequences, FiniteSets, TLC

VARIABLES surveys, survey_states, responses, inflight, request, response, prior

vars == <<surveys, survey_states, responses, inflight, request, response, prior>>

(***************************************************************************)
(* Bounds of the model.                                                    *)
(***************************************************************************)
\* Longest answered_questions list a session is driven to.
MaxAnswered == 3

(***************************************************************************)
(* Python values.  An answer value is "Any": None, a number or a string.   *)
(* The record is canonical (n = 0 unless a number, s = "" unless a         *)
(* string), so record equality is Python's == on these values.             *)
(***************************************************************************)
NoneVal == [kind |-> "none", n |-> 0, s |-> ""]
Num(n) == [kind |-> "num", n |-> n, s |-> ""]
Str(s) == [kind |-> "str", n |-> 0, s |-> s]

\* Optional[...] fields: None or a value.
NoneOpt == [some |-> FALSE, v |-> <<>>]
Some(x) == [some |-> TRUE, v |-> x]

\* The outcome of a call that may raise: a returned boolean or an exception.
Ret(b) == [raised |-> FALSE, val |-> b]
Raise == [raised |-> TRUE, val |-> FALSE]

Range(seq) == {seq[i] : i \in 1..Len(seq)}

\* dict helpers: a dict is a function whose domain is its key set.
EmptyDict == [k \in {} |-> NoneVal]
Put(d, k, v) == [x \in (DOMAIN d) \cup {k} |-> IF x = k THEN v ELSE d[x]]
\* dict.get(k): the value, or None when the key is absent.
Get(d, k) == IF k \in DOMAIN d THEN d[k] ELSE NoneVal

\* Strings float() parses; every other string raises ValueError.
NumericStrings == {"1", "4"}
ParseFloat(s) == IF s = "1" THEN 1 ELSE 4

\* float(v) succeeds on numbers and numeric strings only
\* (TypeError on None, ValueError on any other string).
CanFloat(v) == v.kind = "num" \/ (v.kind = "str" /\ v.s \in NumericStrings)
Float(v) == IF v.kind = "num" THEN v.n ELSE ParseFloat(v.s)

(***************************************************************************)
(* Condition.evaluate                                                      *)
(***************************************************************************)
\* Mutant of evaluate: greater_than with its operands exchanged.
EvaluateSwapped(c, previous_answer) ==
    IF previous_answer = NoneVal THEN Ret(FALSE)
    ELSE IF c.operator = "equals" THEN Ret(previous_answer = c.value)
    ELSE IF c.operator = "greater_than" THEN
        IF ~CanFloat(previous_answer) \/ ~CanFloat(c.value) THEN Raise
        ELSE Ret(Float(c.value) > Float(previous_answer))
    ELSE IF c.operator = "less_than" THEN
        IF ~CanFloat(previous_answer) \/ ~CanFloat(c.value) THEN Raise
        ELSE Ret(Float(previous_answer) < Float(c.value))
    ELSE Ret(FALSE)

\* Mutant of evaluate: equals is never met.
EvaluateNeverEqual(c, previous_answer) ==
    IF previous_answer = NoneVal THEN Ret(FALSE)
    ELSE IF c.operator = "equals" THEN Ret(FALSE)
    ELSE IF c.operator = "greater_than" THEN
        IF ~CanFloat(previous_answer) \/ ~CanFloat(c.value) THEN Raise
        ELSE Ret(Float(previous_answer) > Float(c.value))
    ELSE IF c.operator = "less_than" THEN
        IF ~CanFloat(previous_answer) \/ ~CanFloat(c.value) THEN Raise
        ELSE Ret(Float(previous_answer) < Float(c.value))
    ELSE Ret(FALSE)

Evaluate(c, previous_answer) ==
    IF previous_answer = NoneVal THEN Ret(FALSE)
    ELSE IF c.operator = "equals" THEN Ret(previous_answer = c.value)
    ELSE IF c.operator = "greater_than" THEN
        IF ~CanFloat(previous_answer) \/ ~CanFloat(c.value) THEN Raise
        ELSE Ret(Float(previous_answer) > Float(c.value))
    ELSE IF c.operator = "less_than" THEN
        IF ~CanFloat(previous_answer) \/ ~CanFloat(c.value) THEN Raise
        ELSE Ret(Float(previous_answer) < Float(c.value))
    ELSE Ret(FALSE)

(***************************************************************************)
(* Question.should_show: all() over the conditions in list order, stopping *)
(* at the first false one; an exception of evaluate propagates.            *)
(***************************************************************************)
\* Mutant of should_show: any() in place of all().
RECURSIVE AllHoldAny(_, _, _)
AllHoldAny(conditions, i, previous_answers) ==
    IF i > Len(conditions) THEN Ret(FALSE)
    ELSE LET r == Evaluate(conditions[i],
                           Get(previous_answers, conditions[i].previous_question_id))
         IN IF r.raised THEN Raise
            ELSE IF r.val THEN Ret(TRUE)
            ELSE AllHoldAny(conditions, i + 1, previous_answers)

RECURSIVE AllHold(_, _, _)
AllHold(conditions, i, previous_answers) ==
    IF i > Len(conditions) THEN Ret(TRUE)
    ELSE LET r == Evaluate(conditions[i],
                           Get(previous_answers, conditions[i].previous_question_id))
         IN IF r.raised THEN Raise
            ELSE IF ~r.val THEN Ret(FALSE)
            ELSE AllHold(conditions, i + 1, previous_answers)

ShouldShow(q, previous_answers) ==
    IF q.conditions = <<>> THEN Ret(TRUE)
    ELSE AllHold(q.conditions, 1, previous_answers)

(***************************************************************************)
(* SurveyState                                                             *)
(***************************************************************************)
NewSurveyState ==
    [current_question_idx |-> 0,
     answered_questions |-> <<>>,
     skipped_questions |-> <<>>,
     answers |-> EmptyDict,
     is_structured_complete |-> FALSE,
     is_complete |-> FALSE]

\* Mutant of add_answer: recording an answer reopens the structured phase.
AddAnswerReopening(state, question_id, answer) ==
    [state EXCEPT !.answered_questions = Append(@, question_id),
                  !.answers = Put(@, question_id, answer),
                  !.is_structured_complete = FALSE]

\* Mutant of add_answer: a value already recorded for the question is kept.
AddAnswerKeepingFirst(state, question_id, answer) ==
    [state EXCEPT !.answered_questions = Append(@, question_id),
                  !.answers = IF question_id \in DOMAIN @ THEN @
                              ELSE Put(@, question_id, answer)]

AddAnswer(state, question_id, answer) ==
    [state EXCEPT !.answered_questions = Append(@, question_id),
                  !.answers = Put(@, question_id, answer)]

\* SurveyState.skip_question (the service never calls it)
SkipQuestion(state, question_id) ==
    [state EXCEPT !.skipped_questions = Append(@, question_id)]

(***************************************************************************)
(* Survey.get_next_question                                                *)
(***************************************************************************)
\* list.sort(key=order) is stable: an element goes after those of equal order.
RECURSIVE InsertByOrder(_, _)
InsertByOrder(q, sorted) ==
    IF sorted = <<>> THEN <<q>>
    ELSE IF q.order < Head(sorted).order THEN <<q>> \o sorted
    ELSE <<Head(sorted)>> \o InsertByOrder(q, Tail(sorted))

RECURSIVE SortByOrder(_)
SortByOrder(qs) ==
    IF qs = <<>> THEN <<>>
    ELSE InsertByOrder(qs[Len(qs)], SortByOrder(SubSeq(qs, 1, Len(qs) - 1)))

\* Mutant of the pending filter: answered questions stay pending.
IsPendingThoughAnswered(q, state) ==
    /\ ~q.is_final
    /\ q.id \notin Range(state.skipped_questions)

IsPending(q, state) ==
    /\ ~q.is_final
    /\ q.id \notin Range(state.answered_questions)
    /\ q.id \notin Range(state.skipped_questions)

PendingQuestions(survey, state) ==
    SortByOrder(SelectSeq(survey.questions, LAMBDA q : IsPending(q, state)))

\* The for loop over the pending questions: <<q>> found, <<>> not found.
RECURSIVE ScanPending(_, _, _)
ScanPending(pending, i, answers) ==
    IF i > Len(pending) THEN [raised |-> FALSE, ret |-> <<>>]
    ELSE LET r == ShouldShow(pending[i], answers)
         IN IF r.raised THEN [raised |-> TRUE, ret |-> <<>>]
            ELSE IF r.val THEN [raised |-> FALSE, ret |-> <<pending[i]>>]
            ELSE ScanPending(pending, i + 1, answers)

\* Mutant of the final branch: the final question is returned whether or
\* not it was answered.
FinalQuestionIgnoringAnswered(survey, state) ==
    LET finals == SelectSeq(survey.questions, LAMBDA q : q.is_final)
    IN IF finals # <<>> THEN <<finals[1]>> ELSE <<>>

\* The branch taken once the structured questions are complete.
FinalQuestion(survey, state) ==
    LET finals == SelectSeq(survey.questions, LAMBDA q : q.is_final)
    IN IF finals # <<>> /\ finals[1].id \notin Range(state.answered_questions)
       THEN <<finals[1]>>
       ELSE <<>>

\* Mutant of get_next_question: the is_complete check is missing.
GetNextQuestionIgnoringComplete(survey, state) ==
    IF state.is_structured_complete
    THEN [raised |-> FALSE, ret |-> FinalQuestion(survey, state), state |-> state]
    ELSE LET scan == ScanPending(PendingQuestions(survey, state), 1, state.answers)
             done == [state EXCEPT !.is_structured_complete = TRUE]
         IN IF scan.raised THEN [raised |-> TRUE, ret |-> <<>>, state |-> state]
            ELSE IF scan.ret # <<>>
            THEN [raised |-> FALSE, ret |-> scan.ret, state |-> state]
            ELSE [raised |-> FALSE, ret |-> FinalQuestion(survey, done),
                  state |-> done]

\* Mutant of get_next_question: the final question is looked up without
\* is_structured_complete having been set.
GetNextQuestionUnflagged(survey, state) ==
    IF state.is_complete THEN [raised |-> FALSE, ret |-> <<>>, state |-> state]
    ELSE IF state.is_structured_complete
    THEN [raised |-> FALSE, ret |-> FinalQuestion(survey, state), state |-> state]
    ELSE LET scan == ScanPending(PendingQuestions(survey, state), 1, state.answers)
         IN IF scan.raised THEN [raised |-> TRUE, ret |-> <<>>, state |-> state]
            ELSE IF scan.ret # <<>>
            THEN [raised |-> FALSE, ret |-> scan.ret, state |-> state]
            ELSE [raised |-> FALSE, ret |-> FinalQuestion(survey, state),
                  state |-> state]

\* Mutant of get_next_question: finding the structured phase over, the call
\* also empties answered_questions.
GetNextQuestionForgetting(survey, state) ==
    IF state.is_complete THEN [raised |-> FALSE, ret |-> <<>>, state |-> state]
    ELSE IF state.is_structured_complete
    THEN [raised |-> FALSE, ret |-> FinalQuestion(survey, state), state |-> state]
    ELSE LET scan == ScanPending(PendingQuestions(survey, state), 1, state.answers)
             done == [state EXCEPT !.is_structured_complete = TRUE,
                                   !.answered_questions = <<>>]
         IN IF scan.raised THEN [raised |-> TRUE, ret |-> <<>>, state |-> state]
            ELSE IF scan.ret # <<>>
            THEN [raised |-> FALSE, ret |-> scan.ret, state |-> state]
            ELSE [raised |-> FALSE, ret |-> FinalQuestion(survey, done),
                  state |-> done]

\* Mutant of get_next_question: the non-final questions are scanned again
\* although is_structured_complete is set.
GetNextQuestionRescanning(survey, state) ==
    IF state.is_complete THEN [raised |-> FALSE, ret |-> <<>>, state |-> state]
    ELSE LET scan == ScanPending(PendingQuestions(survey, state), 1, state.answers)
             done == [state EXCEPT !.is_structured_complete = TRUE]
         IN IF scan.raised THEN [raised |-> TRUE, ret |-> <<>>, state |-> state]
            ELSE IF scan.ret # <<>>
            THEN [raised |-> FALSE, ret |-> scan.ret, state |-> state]
            ELSE [raised |-> FALSE, ret |-> FinalQuestion(survey, done),
                  state |-> done]

\* Returns the question (<<q>>, or <<>> for None), whether it raised, and
\* the state as the call leaves it (is_structured_complete may be set).
RECURSIVE GetNextQuestion(_, _)
GetNextQuestion(survey, state) ==
    IF state.is_complete THEN [raised |-> FALSE, ret |-> <<>>, state |-> state]
    ELSE IF state.is_structured_complete
    THEN [raised |-> FALSE, ret |-> FinalQuestion(survey, state), state |-> state]
    ELSE LET scan == ScanPending(PendingQuestions(survey, state), 1, state.answers)
         IN IF scan.raised THEN [raised |-> TRUE, ret |-> <<>>, state |-> state]
            ELSE IF scan.ret # <<>>
            THEN [raised |-> FALSE, ret |-> scan.ret, state |-> state]
            ELSE GetNextQuestion(survey,
                                 [state EXCEPT !.is_structured_complete = TRUE])

(***************************************************************************)
(* Survey.validate_answer                                                  *)
(***************************************************************************)
\* Mutant of validate_answer: the upper bound of the scale is exclusive.
ValidateAnswerExclusive(question, answer) ==
    IF question.required /\ (answer = NoneVal \/ answer = Str(""))
    THEN Ret(FALSE)
    ELSE IF question.type = "scale" THEN
        IF ~CanFloat(answer) \/ ~question.scale_range.some THEN Ret(FALSE)
        ELSE Ret(/\ question.scale_range.v[1] <= Float(answer)
                 /\ Float(answer) < question.scale_range.v[2])
    ELSE IF question.type = "multiple_choice" THEN
        IF ~question.options.some THEN Raise
        ELSE Ret(answer.kind = "str" /\ answer.s \in Range(question.options.v))
    ELSE Ret(TRUE)

\* Mutant of validate_answer: the required check is missing.
ValidateAnswerNoRequired(question, answer) ==
    IF question.type = "scale" THEN
        IF ~CanFloat(answer) \/ ~question.scale_range.some THEN Ret(FALSE)
        ELSE Ret(/\ question.scale_range.v[1] <= Float(answer)
                 /\ Float(answer) <= question.scale_range.v[2])
    ELSE IF question.type = "multiple_choice" THEN
        IF ~question.options.some THEN Raise
        ELSE Ret(answer.kind = "str" /\ answer.s \in Range(question.options.v))
    ELSE Ret(TRUE)

ValidateAnswer(question, answer) ==
    IF question.required /\ (answer = NoneVal \/ answer = Str(""))
    THEN Ret(FALSE)
    ELSE IF question.type = "scale" THEN
        \* ValueError / TypeError of float() or of subscripting None is caught
        IF ~CanFloat(answer) \/ ~question.scale_range.some THEN Ret(FALSE)
        ELSE Ret(/\ question.scale_range.v[1] <= Float(answer)
                 /\ Float(answer) <= question.scale_range.v[2])
    ELSE IF question.type = "multiple_choice" THEN
        \* "in None" raises TypeError, which nothing catches
        IF ~question.options.some THEN Raise
        ELSE Ret(answer.kind = "str" /\ answer.s \in Range(question.options.v))
    ELSE Ret(TRUE)

(***************************************************************************)
(* Survey definitions                                                      *)
(***************************************************************************)
Question(id, order, type, is_final, required, options, scale_range, conditions) ==
    [id |-> id, order |-> order, type |-> type, is_final |-> is_final,
     required |-> required, options |-> options, scale_range |-> scale_range,
     conditions |-> conditions]

Condition(previous_question_id, operator, value) ==
    [previous_question_id |-> previous_question_id, operator |-> operator,
     value |-> value]

\* The id (a uuid in the code) of the survey the constructor creates.
DefaultSurveyId == "default"

\* The default survey with q7 shown whatever q6 was answered.
DefaultSurveyAlwaysAskingQ7 ==
    [id |-> DefaultSurveyId,
     questions |-> <<
        Question("q1", 0, "scale", FALSE, TRUE, NoneOpt, Some(<<1, 5>>), <<>>),
        Question("q2", 1, "multiple_choice", FALSE, TRUE,
                 Some(<<"Excellent", "Good", "Average", "Poor">>), NoneOpt,
                 <<Condition("q1", "greater_than", Num(2))>>),
        Question("q3", 2, "text", FALSE, TRUE, NoneOpt, NoneOpt,
                 <<Condition("q2", "equals", Str("Poor"))>>),
        Question("q4", 3, "multiple_choice", FALSE, TRUE,
                 Some(<<"Exceeded expectations", "Met expectations",
                        "Below expectations">>), NoneOpt,
                 <<Condition("q1", "greater_than", Num(2))>>),
        Question("q5", 4, "text", FALSE, TRUE, NoneOpt, NoneOpt,
                 <<Condition("q4", "equals", Str("Below expectations"))>>),
        Question("q6", 5, "multiple_choice", FALSE, TRUE,
                 Some(<<"Price", "Brand Reputation", "Product Features",
                        "Design", "Other">>), NoneOpt, <<>>),
        Question("q7", 6, "text", FALSE, TRUE, NoneOpt, NoneOpt, <<>>),
        Question("q8", 7, "text", TRUE, TRUE, NoneOpt, NoneOpt, <<>>) >>]

\* SurveyService._create_default_survey
DefaultSurvey ==
    [id |-> DefaultSurveyId,
     questions |-> <<
        Question("q1", 0, "scale", FALSE, TRUE, NoneOpt, Some(<<1, 5>>), <<>>),
        Question("q2", 1, "multiple_choice", FALSE, TRUE,
                 Some(<<"Excellent", "Good", "Average", "Poor">>), NoneOpt,
                 <<Condition("q1", "greater_than", Num(2))>>),
        Question("q3", 2, "text", FALSE, TRUE, NoneOpt, NoneOpt,
                 <<Condition("q2", "equals", Str("Poor"))>>),
        Question("q4", 3, "multiple_choice", FALSE, TRUE,
                 Some(<<"Exceeded expectations", "Met expectations",
                        "Below expectations">>), NoneOpt,
                 <<Condition("q1", "greater_than", Num(2))>>),
        Question("q5", 4, "text", FALSE, TRUE, NoneOpt, NoneOpt,
                 <<Condition("q4", "equals", Str("Below expectations"))>>),
        Question("q6", 5, "multiple_choice", FALSE, TRUE,
                 Some(<<"Price", "Brand Reputation", "Product Features",
                        "Design", "Other">>), NoneOpt, <<>>),
        Question("q7", 6, "text", FALSE, TRUE, NoneOpt, NoneOpt,
                 <<Condition("q6", "equals", Str("Other"))>>),
        Question("q8", 7, "text", TRUE, TRUE, NoneOpt, NoneOpt, <<>>) >>]

\* Request bodies of POST /api/surveys the model submits.  `fields` are the
\* keys present in the body; Survey(**survey_data) needs all three.
RequiredSurveyFields == {"title", "description", "questions"}

\* Scale branching: q2 is shown only if q1 > 2; q3 is the final question.
ScaleBranchingData ==
    [fields |-> RequiredSurveyFields, id |-> "s1",
     questions |-> <<
        Question("q1", 0, "scale", FALSE, TRUE, NoneOpt, Some(<<1, 5>>), <<>>),
        Question("q2", 1, "multiple_choice", FALSE, TRUE,
                 Some(<<"Good", "Poor">>), NoneOpt,
                 <<Condition("q1", "greater_than", Num(2))>>),
        Question("q3", 2, "text", TRUE, TRUE, NoneOpt, NoneOpt, <<>>) >>]

\* The final question carries a condition on the optional branch question q2.
ConditionalFinalData ==
    [fields |-> RequiredSurveyFields, id |-> "s1",
     questions |-> <<
        Question("q1", 0, "scale", FALSE, TRUE, NoneOpt, Some(<<1, 5>>), <<>>),
        Question("q2", 1, "text", FALSE, TRUE, NoneOpt, NoneOpt,
                 <<Condition("q1", "greater_than", Num(2))>>),
        Question("q3", 2, "text", TRUE, TRUE, NoneOpt, NoneOpt,
                 <<Condition("q2", "equals", Str("Poor"))>>) >>]

\* No final question; a free-text q1 feeds a numeric condition, and q2 is a
\* multiple_choice question defined without options.
NoFinalData ==
    [fields |-> RequiredSurveyFields, id |-> "s1",
     questions |-> <<
        Question("q2", 1, "multiple_choice", FALSE, TRUE, NoneOpt, NoneOpt,
                 <<Condition("q1", "less_than", Num(3))>>),
        Question("q1", 0, "text", FALSE, TRUE, NoneOpt, NoneOpt, <<>>) >>]

\* A survey without questions.
EmptySurveyData ==
    [fields |-> RequiredSurveyFields, id |-> "s1", questions |-> <<>>]

\* A body without its title: pydantic rejects it.
MissingTitleData ==
    [fields |-> {"description", "questions"}, id |-> "s1", questions |-> <<>>]

SurveyCatalog ==
    {ScaleBranchingData, ConditionalFinalData, NoFinalData, EmptySurveyData,
     MissingTitleData}

\* Inputs of the requests: "s0" is never created, "q9" is in no survey.
SurveyIds == {"s1", "s0"}
UserIds == {"u1"}
QuestionIds == {"q1", "q2", "q3", "q9"}
AnswerValues == {NoneVal, Num(1), Num(4), Str("Poor")}

(***************************************************************************)
(* Requests and responses                                                  *)
(***************************************************************************)
NoProgress == [answered |-> 0, total |-> 0, is_final |-> FALSE]

\* The endpoint called last and the session it addresses.
Request(op, survey_id, user_id) ==
    [op |-> op, survey_id |-> survey_id, user_id |-> user_id]

\* HTTPException(status_code, detail); 500 is an exception nothing handles.
Failure(status, detail) ==
    [status |-> status, detail |-> detail, question |-> <<>>,
     completed |-> FALSE, progress |-> NoProgress]

\* len([q for q in survey.questions if not q.is_final])
TotalQuestions(survey) ==
    Len(SelectSeq(survey.questions, LAMBDA q : ~q.is_final))

Progress(survey, state, next_question) ==
    [answered |-> Len(state.answered_questions),
     total |-> TotalQuestions(survey),
     is_final |-> next_question.is_final]

\* self.survey_states.get(survey_id, {}).get(user_id): <<state>> or <<>>.
SessionOf(states, survey_id, user_id) ==
    IF survey_id \in DOMAIN states /\ user_id \in DOMAIN states[survey_id]
    THEN <<states[survey_id][user_id]>>
    ELSE <<>>

\* Mutant of the store: the survey's entry is replaced by one that holds
\* this user's state only.
StoreSessionAlone(states, survey_id, user_id, state) ==
    Put(states, survey_id, Put(EmptyDict, user_id, state))

\* self.survey_states[survey_id][user_id] = state
StoreSession(states, survey_id, user_id, state) ==
    LET of_survey == IF survey_id \in DOMAIN states THEN states[survey_id]
                     ELSE EmptyDict
    IN Put(states, survey_id, Put(of_survey, user_id, state))

(***************************************************************************)
(* SurveyService                                                           *)
(***************************************************************************)
Init ==
    /\ surveys = Put(EmptyDict, DefaultSurveyId, DefaultSurvey)
    /\ survey_states = EmptyDict
    \* the SurveyResponse records: the constructor creates no store for them
    /\ responses = EmptyDict
    \* the submit_answer requests received and not yet handled
    /\ inflight = <<>>
    /\ request = Request("init", "", "")
    /\ response = Failure(0, "")
    /\ prior = <<>>

\* SurveyService.create_survey
CreateSurvey(survey_data) ==
    /\ request' = Request("create_survey", survey_data.id, "")
    /\ prior' = <<>>
    /\ IF ~(RequiredSurveyFields \subseteq survey_data.fields)
       THEN /\ response' = Failure(400, "validation error")
            /\ UNCHANGED surveys
       ELSE /\ surveys' = Put(surveys, survey_data.id,
                              [id |-> survey_data.id,
                               questions |-> survey_data.questions])
            /\ response' = [Failure(200, "") EXCEPT !.detail = "created"]
    /\ UNCHANGED <<survey_states, responses, inflight>>

\* Mutant of the reset: an existing session is kept.
ResetSessionIfAbsent(states, survey_id, user_id) ==
    IF SessionOf(states, survey_id, user_id) # <<>> THEN states
    ELSE StoreSession(states, survey_id, user_id, NewSurveyState)

\* start_survey, "Initialize or reset state": a new SurveyState replaces
\* whatever the store holds for the pair.
ResetSession(states, survey_id, user_id) ==
    StoreSession(states, survey_id, user_id, NewSurveyState)

\* Mutant of start_survey's return: a missing first question is not checked.
StartResponseUnchecked(survey, state, next_question) ==
    [status |-> 200, detail |-> "", question |-> next_question,
     completed |-> FALSE,
     progress |-> IF next_question = <<>> THEN NoProgress
                  ELSE Progress(survey, state, next_question[1])]

\* start_survey, from the check of the first question to the return.
StartResponse(survey, state, next_question) ==
    IF next_question = <<>>
    THEN Failure(400, "No questions available")
    ELSE [status |-> 200, detail |-> "", question |-> next_question,
          completed |-> FALSE,
          progress |-> Progress(survey, state, next_question[1])]

\* SurveyService.start_survey
StartSurvey(survey_id, user_id) ==
    /\ request' = Request("start_survey", survey_id, user_id)
    /\ prior' = SessionOf(survey_states, survey_id, user_id)
    /\ UNCHANGED <<surveys, responses, inflight>>
    /\ IF survey_id \notin DOMAIN surveys
       THEN /\ response' = Failure(404, "Survey not found")
            /\ UNCHANGED survey_states
       ELSE LET survey == surveys[survey_id]
                reset == ResetSession(survey_states, survey_id, user_id)
                \* get_next_question works on the stored state object
                next == GetNextQuestion(survey, reset[survey_id][user_id])
            IN /\ survey_states' =
                      StoreSession(reset, survey_id, user_id, next.state)
               /\ response' =
                      IF next.raised THEN Failure(500, "Internal Server Error")
                      ELSE StartResponse(survey, next.state, next.ret)

\* Mutant of the checks: the question is looked up before the session.
SubmitChecksQuestionFirst(survey_id, user_id, question_id, value) ==
    IF survey_id \notin DOMAIN surveys
    THEN <<Failure(404, "Survey not found")>>
    ELSE LET found == SelectSeq(surveys[survey_id].questions,
                                LAMBDA q : q.id = question_id)
         IN IF found = <<>>
            THEN <<Failure(400, "Question not found")>>
            ELSE IF SessionOf(survey_states, survey_id, user_id) = <<>>
            THEN <<Failure(400, "Survey session not found")>>
            ELSE LET valid == ValidateAnswer(found[1], value)
                 IN IF valid.raised
                    THEN <<Failure(500, "Internal Server Error")>>
                    ELSE IF ~valid.val
                    THEN <<Failure(400, "Invalid answer")>>
                    ELSE <<>>

\* submit_answer, the checks made before the answer is recorded:
\* <<failure>> for the first check that fails, <<>> when all pass.
SubmitChecks(survey_id, user_id, question_id, value) ==
    IF survey_id \notin DOMAIN surveys
    THEN <<Failure(404, "Survey not found")>>
    ELSE IF SessionOf(survey_states, survey_id, user_id) = <<>>
    THEN <<Failure(400, "Survey session not found")>>
    ELSE LET found == SelectSeq(surveys[survey_id].questions,
                                LAMBDA q : q.id = question_id)
         IN IF found = <<>>
            THEN <<Failure(400, "Question not found")>>
            ELSE LET valid == ValidateAnswer(found[1], value)
                 IN IF valid.raised
                    THEN <<Failure(500, "Internal Server Error")>>
                    ELSE IF ~valid.val
                    THEN <<Failure(400, "Invalid answer")>>
                    ELSE <<>>

\* submit_answer, from "Check if survey is complete" to the return.
SubmitResponse(survey, state, next_question) ==
    IF next_question = <<>>
    THEN [status |-> 200, detail |-> "Survey completed", question |-> <<>>,
          completed |-> TRUE, progress |-> NoProgress]
    ELSE [status |-> 200, detail |-> "", question |-> next_question,
          completed |-> FALSE,
          progress |-> Progress(survey, state, next_question[1])]

\* SurveyService.submit_answer
SubmitAnswer(survey_id, user_id, question_id, value) ==
    LET checks == SubmitChecks(survey_id, user_id, question_id, value)
    IN /\ request' = Request("submit_answer", survey_id, user_id)
       /\ prior' = SessionOf(survey_states, survey_id, user_id)
       \* no SurveyResponse is created or completed anywhere in the handler
       /\ UNCHANGED <<surveys, responses>>
       /\ IF checks # <<>>
          THEN /\ response' = checks[1]
               /\ UNCHANGED survey_states
          ELSE LET survey == surveys[survey_id]
                   recorded == AddAnswer(survey_states[survey_id][user_id],
                                         question_id, value)
                   next == GetNextQuestion(survey, recorded)
               IN IF next.raised
                  THEN \* the stored state already holds the answer
                       /\ response' = Failure(500, "Internal Server Error")
                       /\ survey_states' = StoreSession(survey_states,
                              survey_id, user_id, next.state)
                  ELSE /\ response' = SubmitResponse(survey, next.state, next.ret)
                       /\ survey_states' = StoreSession(survey_states,
                              survey_id, user_id,
                              IF next.ret = <<>>
                              THEN [next.state EXCEPT !.is_complete = TRUE]
                              ELSE next.state)

\* The model stops driving a session whose answered_questions is MaxAnswered long.
WithinBound(survey_id, user_id) ==
    LET session == SessionOf(survey_states, survey_id, user_id)
    IN IF session = <<>> THEN TRUE
       ELSE Len(session[1].answered_questions) < MaxAnswered

Next ==
    \/ \E survey_data \in SurveyCatalog : CreateSurvey(survey_data)
    \/ \E survey_id \in SurveyIds, user_id \in UserIds :
          StartSurvey(survey_id, user_id)
    \/ \E survey_id \in SurveyIds, user_id \in UserIds,
          question_id \in QuestionIds, value \in AnswerValues :
          /\ WithinBound(survey_id, user_id)
          /\ SubmitAnswer(survey_id, user_id, question_id, value)
          /\ UNCHANGED inflight

Spec == Init /\ [][Next]_vars

(***************************************************************************)
(* Survey and SurveyState on their own: one Survey object, one SurveyState *)
(* object, and a caller that asks for the next question and then answers   *)
(* or skips the question it was given.                                     *)
(***************************************************************************)
MaxSkipped == 1

\* Stored out of order; q2 and q3 tie on order; q1 is free text and feeds
\* numeric conditions; q4 carries two conditions; q5 is the final question.
TieOrderSurvey ==
    [id |-> "s1",
     questions |-> <<
        Question("q2", 1, "text", FALSE, TRUE, NoneOpt, NoneOpt,
                 <<Condition("q1", "greater_than", Num(2))>>),
        Question("q3", 1, "text", FALSE, TRUE, NoneOpt, NoneOpt, <<>>),
        Question("q4", 2, "text", FALSE, TRUE, NoneOpt, NoneOpt,
                 <<Condition("q1", "greater_than", Num(2)),
                   Condition("q3", "equals", Str("Poor"))>>),
        Question("q5", 3, "text", TRUE, TRUE, NoneOpt, NoneOpt, <<>>),
        Question("q1", 0, "text", FALSE, TRUE, NoneOpt, NoneOpt, <<>>) >>]

\* The scale-branching survey extended with q4, shown when q2 is "Poor".
NestedBranchingSurvey ==
    [id |-> "s1",
     questions |-> ScaleBranchingData.questions \o <<
        Question("q4", 3, "text", FALSE, TRUE, NoneOpt, NoneOpt,
                 <<Condition("q2", "equals", Str("Poor"))>>) >>]

ModelSurveys ==
    {TieOrderSurvey,
     [id |-> "s1", questions |-> NoFinalData.questions],
     [id |-> "s1", questions |-> ScaleBranchingData.questions],
     NestedBranchingSurvey}

ModelAnswerValues == {Num(1), Num(4), Str("Poor")}

\* Survey(...) and SurveyState(): one survey, one fresh state.
InitSurvey ==
    /\ surveys \in {Put(EmptyDict, survey.id, survey) : survey \in ModelSurveys}
    /\ survey_states = StoreSession(EmptyDict, "s1", "u1", NewSurveyState)
    /\ responses = EmptyDict
    /\ inflight = <<>>
    /\ request = Request("init", "s1", "u1")
    /\ response = Failure(0, "")
    /\ prior = <<>>

\* survey.get_next_question(state)
ModelGetNextQuestion ==
    LET state == survey_states["s1"]["u1"]
        next == GetNextQuestion(surveys["s1"], state)
    IN /\ request.op # "get_next_question"
       /\ request' = Request("get_next_question", "s1", "u1")
       /\ prior' = <<state>>
       /\ survey_states' = StoreSession(survey_states, "s1", "u1", next.state)
       /\ response' = IF next.raised THEN Failure(500, "Internal Server Error")
                      ELSE [Failure(200, "") EXCEPT !.question = next.ret]
       /\ UNCHANGED <<surveys, responses, inflight>>

\* state.add_answer(question.id, value) for the question just returned and
\* a value validate_answer accepts
ModelAddAnswer(value) ==
    LET state == survey_states["s1"]["u1"]
    IN /\ request.op = "get_next_question"
       /\ response.question # <<>>
       /\ Len(state.answered_questions) < MaxAnswered
       /\ ValidateAnswer(response.question[1], value) = Ret(TRUE)
       /\ request' = Request("add_answer", "s1", "u1")
       /\ prior' = <<state>>
       /\ survey_states' = StoreSession(survey_states, "s1", "u1",
              AddAnswer(state, response.question[1].id, value))
       /\ response' = Failure(200, "")
       /\ UNCHANGED <<surveys, responses, inflight>>

\* state.skip_question(question.id) for the question just returned
ModelSkipQuestion ==
    LET state == survey_states["s1"]["u1"]
    IN /\ request.op = "get_next_question"
       /\ response.question # <<>>
       /\ Len(state.skipped_questions) < MaxSkipped
       /\ request' = Request("skip_question", "s1", "u1")
       /\ prior' = <<state>>
       /\ survey_states' = StoreSession(survey_states, "s1", "u1",
              SkipQuestion(state, response.question[1].id))
       /\ response' = Failure(200, "")
       /\ UNCHANGED <<surveys, responses, inflight>>

NextSurvey ==
    \/ ModelGetNextQuestion
    \/ \E value \in ModelAnswerValues : ModelAddAnswer(value)
    \/ ModelSkipQuestion

SpecSurvey == InitSurvey /\ [][NextSurvey]_vars

(***************************************************************************)
(* Editing the stored surveys: POST /api/surveys, the question endpoints   *)
(* of main.py and the SurveyService methods behind them.  `prior` holds    *)
(* the addressed survey as it was before the call.                         *)
(***************************************************************************)
\* Most questions a survey is grown to by add_question.
MaxQuestions == 3

\* Two questions under one id; each is well formed.
DuplicateIdData ==
    [fields |-> RequiredSurveyFields, id |-> "s1",
     questions |-> <<
        Question("q1", 0, "text", FALSE, TRUE, NoneOpt, NoneOpt, <<>>),
        Question("q1", 1, "scale", FALSE, TRUE, NoneOpt, Some(<<1, 5>>), <<>>) >>]

EditCatalog ==
    {ScaleBranchingData, DuplicateIdData, EmptySurveyData, MissingTitleData}

\* The question ids the update and delete requests name; "q9" is in no survey.
EditQuestionIds == {"q1", "q2", "q9"}

\* The ids uuid4 gives to added questions, in the order they are drawn.
NewIds == <<"n1", "n2">>

\* Bodies of POST /api/surveys/{survey_id}/questions; `keys` are the keys
\* present in question_data.
AddBody(keys, type, options, min_val, max_val) ==
    [keys |-> keys, type |-> type, options |-> options,
     min_val |-> min_val, max_val |-> max_val]

AddQuestionBodies ==
    {AddBody({"text", "type", "options"}, "multiple_choice", <<"Good", "Poor">>, 0, 0),
     AddBody({"text", "type"}, "multiple_choice", <<>>, 0, 0),
     AddBody({"text", "type"}, "scale", <<>>, 0, 0),
     AddBody({"text", "type", "min_val", "max_val"}, "scale", <<>>, 5, 1),
     AddBody({"type"}, "text", <<>>, 0, 0),
     AddBody({"text", "type"}, "rating", <<>>, 0, 0)}

QuestionTypes == {"scale", "multiple_choice", "text", "voice"}

\* The first id of NewIds that no question of the survey carries: <<id>>,
\* or <<>> when all are in use.
FreshId(survey) ==
    LET unused == {i \in 1..Len(NewIds) :
                      \A k \in 1..Len(survey.questions) :
                          survey.questions[k].id # NewIds[i]}
    IN IF unused = {} THEN <<>>
       ELSE <<NewIds[CHOOSE i \in unused : \A j \in unused : i <= j]>>

\* new_question as the endpoint builds it and Question(**new_question)
NewQuestion(survey, body, id) ==
    Question(id, Len(survey.questions), body.type, FALSE, TRUE,
             IF body.type = "multiple_choice"
             THEN Some(IF "options" \in body.keys THEN body.options ELSE <<>>)
             ELSE NoneOpt,
             IF body.type = "scale"
             THEN Some(<<IF "min_val" \in body.keys THEN body.min_val ELSE 1,
                        IF "max_val" \in body.keys THEN body.max_val ELSE 5>>)
             ELSE NoneOpt,
             <<>>)

\* The stored survey: <<survey>> or <<>>.
SurveyOf(survey_id) ==
    IF survey_id \in DOMAIN surveys THEN <<surveys[survey_id]>> ELSE <<>>

\* POST /api/surveys/{survey_id}/questions and SurveyService.add_question;
\* the endpoint turns every exception, HTTPException included, into a 400.
AddQuestion(survey_id, body) ==
    /\ request' = Request("add_question", survey_id, "")
    /\ prior' = SurveyOf(survey_id)
    /\ UNCHANGED <<survey_states, responses, inflight>>
    /\ IF survey_id \notin DOMAIN surveys
       THEN /\ response' = Failure(400, "404: Survey not found")
            /\ UNCHANGED surveys
       ELSE LET survey == surveys[survey_id]
                id == FreshId(survey)
            IN /\ id # <<>>
               /\ Len(survey.questions) < MaxQuestions
               /\ IF ~({"text", "type"} \subseteq body.keys)
                  THEN /\ response' = Failure(400, "KeyError")
                       /\ UNCHANGED surveys
                  ELSE IF body.type \notin QuestionTypes
                  THEN /\ response' = Failure(400, "validation error")
                       /\ UNCHANGED surveys
                  ELSE /\ response' = Failure(200, "")
                       /\ surveys' = Put(surveys, survey_id,
                              [survey EXCEPT !.questions =
                                  Append(@, NewQuestion(survey, body, id[1]))])

\* Bodies of the update endpoint: the keys of question_data in order, and
\* the values of those that are fields of Question.
QuestionUpdate(keys, type, is_final, options, scale_range) ==
    [keys |-> keys, type |-> type, is_final |-> is_final,
     options |-> options, scale_range |-> scale_range]

QuestionUpdates ==
    {QuestionUpdate(<<"is_final">>, "", TRUE, NoneOpt, NoneOpt),
     QuestionUpdate(<<"scale_range">>, "", FALSE, NoneOpt, Some(<<5, 1>>)),
     QuestionUpdate(<<"id", "type">>, "multiple_choice", FALSE, NoneOpt, NoneOpt),
     QuestionUpdate(<<"options", "score">>, "", FALSE, NoneOpt, NoneOpt)}

QuestionFields ==
    {"id", "order", "type", "is_final", "required", "options", "scale_range",
     "conditions"}

\* The loop of setattr calls: "id" is skipped, a key that is no field of
\* Question raises ValueError after the earlier keys were assigned.
RECURSIVE SetFields(_, _, _)
SetFields(question, update, i) ==
    IF i > Len(update.keys) THEN [raised |-> FALSE, question |-> question]
    ELSE IF update.keys[i] = "id" THEN SetFields(question, update, i + 1)
    ELSE IF update.keys[i] \notin QuestionFields
    THEN [raised |-> TRUE, question |-> question]
    ELSE SetFields([question EXCEPT ![update.keys[i]] = update[update.keys[i]]],
                   update, i + 1)

\* Position of the first question with the id, 0 if there is none.
FirstWithId(questions, question_id) ==
    LET found == {i \in 1..Len(questions) : questions[i].id = question_id}
    IN IF found = {} THEN 0 ELSE CHOOSE i \in found : \A j \in found : i <= j

\* The update endpoint and SurveyService.update_question
UpdateQuestion(survey_id, question_id, update) ==
    /\ request' = Request("update_question", survey_id, "")
    /\ prior' = SurveyOf(survey_id)
    /\ UNCHANGED <<survey_states, responses, inflight>>
    /\ IF survey_id \notin DOMAIN surveys
       THEN /\ response' = Failure(404, "Survey not found")
            /\ UNCHANGED surveys
       ELSE LET survey == surveys[survey_id]
                at == FirstWithId(survey.questions, question_id)
            IN IF at = 0
               THEN /\ response' = Failure(404, "Question not found")
                    /\ UNCHANGED surveys
               ELSE LET set == SetFields(survey.questions[at], update, 1)
                    IN /\ response' = IF set.raised THEN Failure(400, "ValueError")
                                      ELSE Failure(200, "")
                       \* the question object is changed in place
                       /\ surveys' = Put(surveys, survey_id,
                              [survey EXCEPT !.questions[at] = set.question])

\* DELETE /api/surveys/{survey_id}/questions/{question_id} and
\* SurveyService.delete_question
DeleteQuestion(survey_id, question_id) ==
    /\ request' = Request("delete_question", survey_id, "")
    /\ prior' = SurveyOf(survey_id)
    /\ UNCHANGED <<survey_states, responses, inflight>>
    /\ IF survey_id \notin DOMAIN surveys
       THEN /\ response' = Failure(400, "404: Survey not found")
            /\ UNCHANGED surveys
       ELSE /\ response' = Failure(200, "")
            /\ surveys' = Put(surveys, survey_id,
                   [surveys[survey_id] EXCEPT !.questions =
                       SelectSeq(@, LAMBDA q : q.id # question_id)])

\* question_orders of reorder_questions: a list of (question_id, order).
OrderUpdate(question_id, order) == [question_id |-> question_id, order |-> order]

QuestionOrders ==
    {<<OrderUpdate("q1", 2), OrderUpdate("q3", 0)>>,
     <<OrderUpdate("q9", 0), OrderUpdate("n1", 0)>>}

\* The loop over question_orders: the first question with the id gets the
\* order, an unknown id is passed over.
RECURSIVE SetOrders(_, _, _)
SetOrders(questions, question_orders, i) ==
    IF i > Len(question_orders) THEN questions
    ELSE LET at == FirstWithId(questions, question_orders[i].question_id)
         IN SetOrders(IF at = 0 THEN questions
                      ELSE [questions EXCEPT ![at].order = question_orders[i].order],
                      question_orders, i + 1)

\* SurveyService.reorder_questions
ReorderQuestions(survey_id, question_orders) ==
    /\ request' = Request("reorder_questions", survey_id, "")
    /\ prior' = SurveyOf(survey_id)
    /\ UNCHANGED <<survey_states, responses, inflight>>
    /\ IF survey_id \notin DOMAIN surveys
       THEN /\ response' = Failure(404, "Survey not found")
            /\ UNCHANGED surveys
       ELSE /\ response' = Failure(200, "")
            /\ surveys' = Put(surveys, survey_id,
                   [surveys[survey_id] EXCEPT !.questions =
                       SortByOrder(SetOrders(@, question_orders, 1))])

NextEdit ==
    \/ \E survey_data \in EditCatalog : CreateSurvey(survey_data)
    \/ \E survey_id \in SurveyIds, body \in AddQuestionBodies :
          AddQuestion(survey_id, body)
    \/ \E survey_id \in SurveyIds, question_id \in EditQuestionIds,
          update \in QuestionUpdates :
          UpdateQuestion(survey_id, question_id, update)
    \/ \E survey_id \in SurveyIds, question_id \in EditQuestionIds :
          DeleteQuestion(survey_id, question_id)
    \/ \E survey_id \in SurveyIds, question_orders \in QuestionOrders :
          ReorderQuestions(survey_id, question_orders)

SpecEdit == Init /\ [][NextEdit]_vars

(***************************************************************************)
(* Survey.validate_answer on its own: a question and a value are chosen,   *)
(* then validate_answer is applied to them.                                *)
(***************************************************************************)
ValidationQuestions ==
    {Question("q1", 0, type, FALSE, required, NoneOpt, scale_range, <<>>) :
        type \in {"scale"}, required \in BOOLEAN,
        scale_range \in {Some(<<1, 5>>), Some(<<3, 3>>), NoneOpt}}
    \cup
    {Question("q1", 0, type, FALSE, required, options, NoneOpt, <<>>) :
        type \in {"multiple_choice"}, required \in BOOLEAN,
        options \in {Some(<<"Good", "Poor">>), NoneOpt}}
    \cup
    {Question("q1", 0, type, FALSE, required, NoneOpt, NoneOpt, <<>>) :
        type \in {"text", "voice"}, required \in BOOLEAN}

ValidationValues ==
    {NoneVal, Str(""), Str("1"), Str("4"), Str("Good"), Str("Poor"), Str("Fair")}
    \cup {Num(n) : n \in 0..6}

ValidationRequest(op, value) ==
    [op |-> op, survey_id |-> "s1", user_id |-> "", value |-> value]

InitValidate ==
    /\ \E question \in ValidationQuestions :
          surveys = Put(EmptyDict, "s1", [id |-> "s1", questions |-> <<question>>])
    /\ \E value \in ValidationValues : request = ValidationRequest("input", value)
    /\ survey_states = StoreSession(EmptyDict, "s1", "u1", NewSurveyState)
    /\ responses = EmptyDict
    /\ inflight = <<>>
    /\ response = Failure(0, "")
    /\ prior = <<>>

\* Mutant of the call: validating clears the question's required flag.
ApplyValidateAnswerConsuming ==
    /\ request.op = "input"
    /\ request' = ValidationRequest("validate_answer", request.value)
    /\ response' = ValidateAnswer(surveys["s1"].questions[1], request.value)
    /\ surveys' = [surveys EXCEPT !["s1"].questions[1].required = FALSE]
    /\ UNCHANGED <<survey_states, responses, inflight, prior>>

\* survey.validate_answer(question, value); `response` is what it gives.
ApplyValidateAnswer ==
    /\ request.op = "input"
    /\ request' = ValidationRequest("validate_answer", request.value)
    /\ response' = ValidateAnswer(surveys["s1"].questions[1], request.value)
    /\ UNCHANGED <<surveys, survey_states, responses, inflight, prior>>

\* The same call once more; `prior` keeps what the first call gave.
ApplyValidateAnswerAgain ==
    /\ request.op = "validate_answer"
    /\ request' = ValidationRequest("validate_answer_again", request.value)
    /\ prior' = <<response>>
    /\ response' = ValidateAnswer(surveys["s1"].questions[1], request.value)
    /\ UNCHANGED <<surveys, survey_states, responses, inflight>>

NextValidate ==
    \/ ApplyValidateAnswer
    \/ ApplyValidateAnswerAgain

SpecValidate == InitValidate /\ [][NextValidate]_vars

(***************************************************************************)
(* Several sessions side by side: two users on survey s1, one of them also *)
(* on survey s2.  Every handler is an `async def` without an await inside, *)
(* so the event loop runs each call from start to end.                     *)
(***************************************************************************)
\* Longest answered_questions list each of the sessions is driven to.
MaxSessionAnswered == 2

SessionPairs == {<<"s1", "u1">>, <<"s1", "u2">>, <<"s2", "u1">>}
SessionQuestionIds == {"q1", "q2"}
SessionAnswerValues == {Num(4), Str("Poor")}

\* The service after create_survey stored s1 and s2.
InitSessions ==
    /\ surveys = Put(Put(Put(EmptyDict, DefaultSurveyId, DefaultSurvey),
                        "s1", [id |-> "s1", questions |-> ScaleBranchingData.questions]),
                    "s2", [id |-> "s2", questions |-> NoFinalData.questions])
    /\ survey_states = EmptyDict
    /\ responses = EmptyDict
    /\ inflight = <<>>
    /\ request = Request("init", "", "")
    /\ response = Failure(0, "")
    /\ prior = <<>>

WithinSessionBound(survey_id, user_id) ==
    LET session == SessionOf(survey_states, survey_id, user_id)
    IN IF session = <<>> THEN TRUE
       ELSE Len(session[1].answered_questions) < MaxSessionAnswered

NextSessions ==
    \/ \E pair \in SessionPairs : StartSurvey(pair[1], pair[2])
    \/ \E pair \in SessionPairs, question_id \in SessionQuestionIds,
          value \in SessionAnswerValues :
          /\ WithinSessionBound(pair[1], pair[2])
          /\ SubmitAnswer(pair[1], pair[2], question_id, value)
          /\ UNCHANGED inflight

SpecSessions == InitSessions /\ [][NextSessions]_vars

(***************************************************************************)
(* Two submit_answer requests for one session, both received before either *)
(* is handled.  The endpoint and SurveyService.submit_answer are coroutines *)
(* without an await in their bodies: the event loop runs a call to its end *)
(* before it starts the other.                                             *)
(***************************************************************************)
ConcurrentSurveys ==
    {[id |-> "s1", questions |-> ScaleBranchingData.questions],
     [id |-> "s1", questions |-> ConditionalFinalData.questions],
     [id |-> "s1", questions |-> NoFinalData.questions]}

ConcurrentQuestionIds == {"q1", "q2", "q3"}
ConcurrentAnswerValues == {Num(1), Num(4), Str("Poor")}

\* A received request: its body, whether it was handled, and its response.
Call(question_id, value) ==
    [pc |-> "pending", question_id |-> question_id, value |-> value,
     response |-> Failure(0, "")]

\* The session start_survey leaves for a survey.
StartedSession(survey) == GetNextQuestion(survey, NewSurveyState).state

\* s1 is stored, u1 has started it, two answers have arrived.
InitConcurrent ==
    /\ \E survey \in ConcurrentSurveys :
          /\ surveys = Put(Put(EmptyDict, DefaultSurveyId, DefaultSurvey),
                           "s1", survey)
          /\ survey_states =
                StoreSession(EmptyDict, "s1", "u1", StartedSession(survey))
    /\ \E q1 \in ConcurrentQuestionIds, v1 \in ConcurrentAnswerValues,
          q2 \in ConcurrentQuestionIds, v2 \in ConcurrentAnswerValues :
          inflight = <<Call(q1, v1), Call(q2, v2)>>
    /\ responses = EmptyDict
    /\ request = Request("init", "s1", "u1")
    /\ response = Failure(0, "")
    /\ prior = <<>>

\* What submit_answer does to a session and what it answers, as a function
\* of the session it finds.
Submitted(survey, state, question_id, value) ==
    LET found == SelectSeq(survey.questions, LAMBDA q : q.id = question_id)
    IN IF found = <<>>
       THEN [state |-> state, response |-> Failure(400, "Question not found")]
       ELSE LET valid == ValidateAnswer(found[1], value)
            IN IF valid.raised
               THEN [state |-> state,
                     response |-> Failure(500, "Internal Server Error")]
               ELSE IF ~valid.val
               THEN [state |-> state, response |-> Failure(400, "Invalid answer")]
               ELSE LET next == GetNextQuestion(survey,
                                    AddAnswer(state, question_id, value))
                    IN IF next.raised
                       THEN [state |-> next.state,
                             response |-> Failure(500, "Internal Server Error")]
                       ELSE [state |-> IF next.ret = <<>>
                                       THEN [next.state EXCEPT !.is_complete = TRUE]
                                       ELSE next.state,
                             response |-> SubmitResponse(survey, next.state,
                                                         next.ret)]

\* Mutant of the handling of a call: it works on the session as it was when
\* the request arrived and writes the result back.
RunCallStale(i) ==
    LET result == Submitted(surveys["s1"], StartedSession(surveys["s1"]),
                            inflight[i].question_id, inflight[i].value)
    IN /\ inflight[i].pc = "pending"
       /\ request' = Request("submit_answer", "s1", "u1")
       /\ prior' = SessionOf(survey_states, "s1", "u1")
       /\ survey_states' = StoreSession(survey_states, "s1", "u1", result.state)
       /\ response' = result.response
       /\ inflight' = [inflight EXCEPT ![i].pc = "done",
                                       ![i].response = result.response]
       /\ UNCHANGED <<surveys, responses>>

\* The event loop runs the handler of a received request to its end.
RunCall(i) ==
    /\ inflight[i].pc = "pending"
    /\ SubmitAnswer("s1", "u1", inflight[i].question_id, inflight[i].value)
    /\ inflight' = [inflight EXCEPT ![i].pc = "done", ![i].response = response']

NextConcurrent == \E i \in {1, 2} : RunCall(i)

SpecConcurrent == InitConcurrent /\ [][NextConcurrent]_vars

(***************************************************************************)
(* Properties                                                              *)
(***************************************************************************)
\* The session the last request addressed, as the store holds it now.
Current == SessionOf(survey_states, request.survey_id, request.user_id)

\* The last call was a submit_answer that returned normally.
AcceptedSubmit == request.op = "submit_answer" /\ response.status = 200

NoRepeat(seq) == \A i, j \in 1..Len(seq) : seq[i] = seq[j] => i = j

IsProperPrefix(s, t) == Len(s) < Len(t) /\ SubSeq(t, 1, Len(s)) = s

\* Every (survey id, user id) pair that has a session.
Sessions ==
    {<<s, u>> \in SurveyIds \X UserIds : SessionOf(survey_states, s, u) # <<>>}

\* C1: an accepted submit_answer only extends the session's
\* answered_questions, and the list never holds the same question id twice.
C1_MonotonicProgress ==
    AcceptedSubmit =>
        /\ IsProperPrefix(prior[1].answered_questions,
                          Current[1].answered_questions)
        /\ NoRepeat(Current[1].answered_questions)

\* C2: a submit_answer on a session whose is_complete is true fails and
\* leaves the session (answers, answered_questions) as it was.
C2_CompleteSessionRejectsSubmit ==
    (request.op = "submit_answer" /\ prior # <<>> /\ prior[1].is_complete) =>
        /\ response.status # 200
        /\ Current = prior

\* C3: submit_answer records an answer only for the question that
\* get_next_question returns for the session's state before the call.
C3_OnlyPendingQuestionRecorded ==
    (/\ request.op = "submit_answer"
     /\ prior # <<>>
     /\ Current[1].answered_questions # prior[1].answered_questions) =>
        LET pending == GetNextQuestion(surveys[request.survey_id], prior[1]).ret
            recorded == Current[1].answered_questions
        IN /\ pending # <<>>
           /\ recorded[Len(recorded)] = pending[1].id

\* C4: the question start_survey or submit_answer returns (the one
\* get_next_question resolved) has no condition on a question the session
\* holds no answer for.
C4_ConditionAbsenceHidden ==
    response.question # <<>> =>
        \A i \in 1..Len(response.question[1].conditions) :
            response.question[1].conditions[i].previous_question_id
                \in DOMAIN Current[1].answers

\* C5: get_next_question returns the final question only with
\* is_structured_complete true, and never once its id is in
\* answered_questions; so for start_survey and submit_answer, which return
\* what it returns.
C5_FinalOnlyAfterStructuredOnce ==
    /\ (response.question # <<>> /\ response.question[1].is_final) =>
          /\ Current[1].is_structured_complete
          /\ response.question[1].id \notin Range(Current[1].answered_questions)
    /\ \A p \in Sessions :
          p[1] \in DOMAIN surveys =>
              LET state == survey_states[p[1]][p[2]]
                  next == GetNextQuestion(surveys[p[1]], state)
              IN (next.ret # <<>> /\ next.ret[1].is_final) =>
                    /\ next.state.is_structured_complete
                    /\ next.ret[1].id \notin Range(state.answered_questions)

\* A submit_answer returned the final question.
C5_Witness ==
    /\ AcceptedSubmit
    /\ response.question # <<>>
    /\ response.question[1].is_final
    /\ Current[1].answered_questions # <<>>

\* C6: unless the step is a start_survey for that session, a session stays
\* in the store and its is_structured_complete and is_complete never go
\* from true to false.
C6_Irreversible ==
    [][\A s \in SurveyIds, u \in UserIds :
          (/\ SessionOf(survey_states, s, u) # <<>>
           /\ ~(/\ request'.op = "start_survey"
                /\ request'.survey_id = s
                /\ request'.user_id = u)) =>
              /\ SessionOf(survey_states', s, u) # <<>>
              /\ (survey_states[s][u].is_structured_complete =>
                     survey_states'[s][u].is_structured_complete)
              /\ (survey_states[s][u].is_complete =>
                     survey_states'[s][u].is_complete)]_vars

\* A submit_answer was accepted on a session whose structured phase was
\* complete, and re-answered a structured question.
C6_Witness ==
    /\ AcceptedSubmit
    /\ prior[1].is_structured_complete
    /\ ~prior[1].is_complete
    /\ ~response.completed

\* C7: for a session whose is_complete is true, get_next_question returns
\* none, on the stored survey and on every survey definition of the catalog.
C7_CompleteReturnsNone ==
    \A p \in Sessions :
        survey_states[p[1]][p[2]].is_complete =>
            \A survey \in {surveys[s] : s \in DOMAIN surveys}
                          \cup {[id |-> d.id, questions |-> d.questions] :
                                  d \in SurveyCatalog} :
                LET next == GetNextQuestion(survey,
                                            survey_states[p[1]][p[2]])
                IN ~next.raised /\ next.ret = <<>>

\* A complete session whose stored survey has a final question that the
\* session never answered.
C7_Witness ==
    \E p \in Sessions :
        /\ p[1] \in DOMAIN surveys
        /\ survey_states[p[1]][p[2]].is_complete
        /\ FinalQuestion(surveys[p[1]], survey_states[p[1]][p[2]]) # <<>>

\* What C8 expects of the checks of a submit_answer in the current state:
\* the survey, the session, the question id and the value, in this order.
C8_ExpectedFailure(s, u, q, v) ==
    LET matching == {i \in 1..Len(surveys[s].questions) :
                        surveys[s].questions[i].id = q}
        first == CHOOSE i \in matching : \A j \in matching : i <= j
    IN IF s \notin DOMAIN surveys THEN "Survey not found"
       ELSE IF SessionOf(survey_states, s, u) = <<>>
       THEN "Survey session not found"
       ELSE IF matching = {} THEN "Question not found"
       ELSE IF ValidateAnswer(surveys[s].questions[first], v) = Ret(FALSE)
       THEN "Invalid answer"
       ELSE "none"

\* C8: submit_answer checks, in this order, the survey (not found), the
\* session (not found), the question id (question not found) and the value
\* (invalid answer); the first check that fails decides the failure, and a
\* submit_answer that failed this way left the session as it was.
C8_SubmitFailurePaths ==
    /\ \A s \in SurveyIds, u \in UserIds, q \in QuestionIds, v \in AnswerValues :
          LET checks == SubmitChecks(s, u, q, v)
              expected == C8_ExpectedFailure(s, u, q, v)
          IN IF expected = "none"
             THEN checks = <<>> \/ checks[1].status = 500
             ELSE /\ checks # <<>>
                  /\ checks[1].detail = expected
                  /\ checks[1].status =
                        IF expected = "Survey not found" THEN 404 ELSE 400
    /\ request.op = "submit_answer" =>
          /\ response.detail = "Survey not found" <=>
                request.survey_id \notin DOMAIN surveys
          /\ response.detail = "Survey session not found" <=>
                (request.survey_id \in DOMAIN surveys /\ prior = <<>>)
          /\ response.detail \in {"Survey not found", "Survey session not found",
                                  "Question not found", "Invalid answer"} =>
                (response.status # 200 /\ Current = prior)

\* A submit_answer on a session with recorded answers failed as an invalid
\* answer.
C8_Witness ==
    /\ request.op = "submit_answer"
    /\ response.detail = "Invalid answer"
    /\ prior # <<>>
    /\ prior[1].answered_questions # <<>>
    /\ Current = prior

\* C9: after a start_survey on a known survey the pair's session is a fresh
\* one (no answers, nothing answered or skipped, not complete), and the
\* question returned is the one resolved from the empty state.
C9_StartReplacesSession ==
    (request.op = "start_survey" /\ response.status # 404) =>
        /\ Current # <<>>
        /\ Current[1].answers = EmptyDict
        /\ Current[1].answered_questions = <<>>
        /\ Current[1].skipped_questions = <<>>
        /\ ~Current[1].is_complete
        /\ response.question =
              GetNextQuestion(surveys[request.survey_id], NewSurveyState).ret

\* A start_survey replaced a session that had recorded answers.
C9_Witness ==
    /\ request.op = "start_survey"
    /\ response.status = 200
    /\ prior # <<>>
    /\ prior[1].answered_questions # <<>>

\* C10: start_survey fails with 404 on an unknown survey id, fails with 400
\* when no question is eligible in the empty state, and otherwise returns
\* the question get_next_question computes for the empty state.
C10_StartSurveyOutcome ==
    request.op = "start_survey" =>
        IF request.survey_id \notin DOMAIN surveys
        THEN response.status = 404 /\ response.detail = "Survey not found"
        ELSE LET first == GetNextQuestion(surveys[request.survey_id],
                                          NewSurveyState).ret
             IN IF first = <<>>
                THEN /\ response.status = 400
                     /\ response.detail = "No questions available"
                     /\ response.question = <<>>
                ELSE /\ response.status = 200
                     /\ response.question = first

\* A start_survey failed on a stored survey that has no eligible question.
C10_Witness ==
    /\ request.op = "start_survey"
    /\ request.survey_id \in DOMAIN surveys
    /\ response.status = 400
    /\ response.detail = "No questions available"

(***************************************************************************)
(* Question ordering and lazy completion                                   *)
(***************************************************************************)
\* Whether every condition of q evaluates to true on the answers.
ConditionsHold(q, answers) ==
    \A i \in 1..Len(q.conditions) :
        Evaluate(q.conditions[i],
                 Get(answers, q.conditions[i].previous_question_id)) = Ret(TRUE)

\* The positions in survey.questions of the eligible non-final questions.
Eligible(survey, state) ==
    {i \in 1..Len(survey.questions) :
        /\ ~survey.questions[i].is_final
        /\ survey.questions[i].id \notin Range(state.answered_questions)
        /\ survey.questions[i].id \notin Range(state.skipped_questions)
        /\ ConditionsHold(survey.questions[i], state.answers)}

\* The eligible position of smallest order, earliest position on a tie.
FirstEligible(survey, state) ==
    CHOOSE i \in Eligible(survey, state) :
        \A j \in Eligible(survey, state) :
            \/ survey.questions[i].order < survey.questions[j].order
            \/ /\ survey.questions[i].order = survey.questions[j].order
               /\ i <= j

\* C11: when is_structured_complete is false and some non-final question is
\* eligible, get_next_question returns the eligible question of smallest
\* order, the one stored first among those of equal order.
C11_SmallestOrderEligible ==
    (/\ request.op = "get_next_question"
     /\ ~prior[1].is_structured_complete
     /\ Eligible(surveys["s1"], prior[1]) # {}) =>
        /\ response.status = 200
        /\ response.question =
              <<surveys["s1"].questions[FirstEligible(surveys["s1"], prior[1])]>>

\* The survey's final question unless its id is in answered_questions.
UnansweredFinal(survey, state) ==
    LET finals == {i \in 1..Len(survey.questions) : survey.questions[i].is_final}
    IN IF finals = {} THEN <<>>
       ELSE LET first == CHOOSE i \in finals : \A j \in finals : i <= j
            IN IF survey.questions[first].id \in Range(state.answered_questions)
               THEN <<>>
               ELSE <<survey.questions[first]>>

\* C12: when is_structured_complete is false and no non-final question is
\* eligible, get_next_question sets is_structured_complete and returns the
\* final question if the survey has one that is not answered, otherwise
\* none; is_structured_complete turns true in no other step.
C12_LazyStructuredCompletion ==
    /\ (/\ request.op = "get_next_question"
        /\ ~prior[1].is_structured_complete
        /\ Eligible(surveys["s1"], prior[1]) = {}) =>
           /\ response.status = 200
           /\ Current[1].is_structured_complete
           /\ response.question = UnansweredFinal(surveys["s1"], prior[1])
    /\ (/\ prior # <<>>
        /\ ~prior[1].is_structured_complete
        /\ Current[1].is_structured_complete) =>
           /\ request.op = "get_next_question"
           /\ Eligible(surveys["s1"], prior[1]) = {}

(***************************************************************************)
(* Conditions                                                              *)
(***************************************************************************)
\* The conditions of the questions of a survey.
ConditionsOf(survey) ==
    UNION {Range(survey.questions[i].conditions) :
              i \in 1..Len(survey.questions)}

\* C13: on every session, a greater_than or less_than condition whose
\* recorded answer or reference value does not coerce to a number evaluates
\* to false without raising, and get_next_question does not fail.
C13_EvaluateNeverRaises ==
    \A su \in Sessions :
        LET survey == surveys[su[1]]
            state == SessionOf(survey_states, su[1], su[2])[1]
        IN /\ \A c \in ConditionsOf(survey) :
                  LET previous_answer == Get(state.answers, c.previous_question_id)
                  IN (/\ c.operator \in {"greater_than", "less_than"}
                      /\ ~CanFloat(previous_answer) \/ ~CanFloat(c.value)) =>
                         Evaluate(c, previous_answer) = Ret(FALSE)
           /\ ~GetNextQuestion(survey, state).raised

\* What evaluate gives for condition i of q on the answers.
Evaluated(q, i, answers) ==
    Evaluate(q.conditions[i], Get(answers, q.conditions[i].previous_question_id))

\* C14: on the answers a state has recorded, should_show is true for a
\* question exactly when every one of its conditions evaluates to true; it
\* is true for a question without conditions, and false when one condition
\* is false and all the others hold.
C14_ConjunctiveGating ==
    LET answers == Current[1].answers
    IN \A q \in Range(surveys["s1"].questions) :
          /\ ShouldShow(q, answers) = Ret(TRUE)
                 <=> \A i \in 1..Len(q.conditions) :
                        Evaluated(q, i, answers) = Ret(TRUE)
          /\ q.conditions = <<>> => ShouldShow(q, answers) = Ret(TRUE)
          /\ \A k \in 1..Len(q.conditions) :
                (/\ Evaluated(q, k, answers) = Ret(FALSE)
                 /\ \A i \in 1..Len(q.conditions) \ {k} :
                        Evaluated(q, i, answers) = Ret(TRUE)) =>
                    ShouldShow(q, answers) = Ret(FALSE)

\* A question with two conditions sees the first hold and the second fail.
C14_Witness ==
    \E q \in Range(surveys["s1"].questions) :
        /\ Len(q.conditions) = 2
        /\ Evaluated(q, 1, Current[1].answers) = Ret(TRUE)
        /\ Evaluated(q, 2, Current[1].answers) = Ret(FALSE)
        /\ ShouldShow(q, Current[1].answers) = Ret(FALSE)

(***************************************************************************)
(* Completion                                                              *)
(***************************************************************************)
\* C15: on every complete session the survey's final question, if it has
\* one, is in answered_questions; and when a submit_answer sets is_complete
\* on a survey without final question, no non-final question is eligible.
C15_CompleteOnlyWhenNothingRemains ==
    /\ \A su \in Sessions :
          LET survey == surveys[su[1]]
              state == SessionOf(survey_states, su[1], su[2])[1]
          IN state.is_complete =>
                \A q \in Range(survey.questions) :
                    q.is_final => q.id \in Range(state.answered_questions)
    /\ (/\ request.op = "submit_answer"
        /\ prior # <<>>
        /\ ~prior[1].is_complete
        /\ Current[1].is_complete
        /\ \A q \in Range(surveys[request.survey_id].questions) : ~q.is_final) =>
           Eligible(surveys[request.survey_id], Current[1]) = {}

\* self.responses.get(survey_id, {}).get(user_id): <<record>> or <<>>.
ResponseOf(survey_id, user_id) ==
    IF survey_id \in DOMAIN responses /\ user_id \in DOMAIN responses[survey_id]
    THEN <<responses[survey_id][user_id]>>
    ELSE <<>>

\* C16: after a submit_answer that reports completion the session is
\* complete and the SurveyResponse of that survey and user exists, holds an
\* answer for every question the session answered and has completed true.
C16_CompletionFinalizesResponse ==
    (AcceptedSubmit /\ response.completed) =>
        LET record == ResponseOf(request.survey_id, request.user_id)
        IN /\ Current[1].is_complete
           /\ record # <<>>
           /\ record[1].completed
           /\ \A question_id \in Range(Current[1].answered_questions) :
                 \E i \in 1..Len(record[1].answers) :
                    record[1].answers[i].question_id = question_id

(***************************************************************************)
(* Survey definitions under edits                                          *)
(***************************************************************************)
\* A multiple_choice question has options, a scale question a range with
\* min <= max.
WellFormed(q) ==
    /\ q.type = "multiple_choice" => q.options.some /\ q.options.v # <<>>
    /\ q.type = "scale" =>
          q.scale_range.some /\ q.scale_range.v[1] <= q.scale_range.v[2]

\* C17: create_survey, add_question and update_question leave no malformed
\* question in the survey that was not there before the call, and an
\* add_question or update_question that fails leaves the survey as it was.
C17_MalformedDefinitionRejected ==
    LET now == SurveyOf(request.survey_id)
    IN /\ (/\ request.op \in {"create_survey", "add_question", "update_question"}
           /\ now # <<>>) =>
              \A q \in Range(now[1].questions) :
                  ~WellFormed(q) =>
                      prior # <<>> /\ q \in Range(prior[1].questions)
       /\ (/\ request.op \in {"add_question", "update_question"}
           /\ response.status # 200) => now = prior

\* C18: every stored survey has at most one question with is_final true and
\* no two questions with the same id.
C18_OneFinalUniqueIds ==
    \A survey_id \in DOMAIN surveys :
        LET questions == surveys[survey_id].questions
        IN \A i, j \in 1..Len(questions) :
              i # j => /\ ~(questions[i].is_final /\ questions[j].is_final)
                       /\ questions[i].id # questions[j].id

(***************************************************************************)
(* Answer validation                                                       *)
(***************************************************************************)
\* The question and the value validate_answer was applied to.
Validated == request.op = "validate_answer"
ValidatedQuestion == surveys["s1"].questions[1]
IsEmptyValue(value) == value = NoneVal \/ value = Str("")

\* C19: on a scale question validate_answer does not raise, and accepts the
\* value exactly when it coerces to a number v with min <= v <= max.
C19_ScaleInclusiveRange ==
    (Validated /\ ValidatedQuestion.type = "scale") =>
        /\ ~response.raised
        /\ response.val <=>
              /\ CanFloat(request.value)
              /\ ValidatedQuestion.scale_range.some
              /\ ValidatedQuestion.scale_range.v[1] <= Float(request.value)
              /\ Float(request.value) <= ValidatedQuestion.scale_range.v[2]

\* The upper bound of a proper range was accepted.
C19_Witness ==
    /\ Validated
    /\ ValidatedQuestion.type = "scale"
    /\ ValidatedQuestion.scale_range = Some(<<1, 5>>)
    /\ request.value = Num(5)
    /\ response = Ret(TRUE)

\* C20: validate_answer rejects an empty or missing value on a required
\* question of any type, accepts a multiple_choice value exactly when it is
\* one of the options, and accepts every non-empty value on a text or
\* voice question.
C20_RequiredMembershipFreeText ==
    Validated =>
        /\ (ValidatedQuestion.required /\ IsEmptyValue(request.value)) =>
              response = Ret(FALSE)
        /\ (/\ ValidatedQuestion.type = "multiple_choice"
            /\ ~(ValidatedQuestion.required /\ IsEmptyValue(request.value))) =>
              (response = Ret(TRUE) <=>
                  /\ ValidatedQuestion.options.some
                  /\ request.value.kind = "str"
                  /\ \E i \in 1..Len(ValidatedQuestion.options.v) :
                        ValidatedQuestion.options.v[i] = request.value.s)
        /\ (/\ ValidatedQuestion.type \in {"text", "voice"}
            /\ ~IsEmptyValue(request.value)) =>
              response = Ret(TRUE)

\* An empty string was rejected on a required free-text question.
C20_Witness ==
    /\ Validated
    /\ ValidatedQuestion.type = "text"
    /\ ValidatedQuestion.required
    /\ request.value = Str("")
    /\ response = Ret(FALSE)

C22_SessionIsolation ==
    [][\A pair \in SessionPairs :
          pair # <<request'.survey_id, request'.user_id>> =>
              SessionOf(survey_states', pair[1], pair[2])
                  = SessionOf(survey_states, pair[1], pair[2])]_vars

\* A submit_answer was recorded for u1 on s1 while u2 on s1 and u1 on s2
\* hold answers of their own.
C22_Witness ==
    /\ AcceptedSubmit
    /\ request.survey_id = "s1" /\ request.user_id = "u1"
    /\ Current[1].answers = Put(EmptyDict, "q1", Num(4))
    /\ SessionOf(survey_states, "s1", "u2") # <<>>
    /\ SessionOf(survey_states, "s1", "u2")[1].answers
          = Put(EmptyDict, "q2", Str("Poor"))
    /\ SessionOf(survey_states, "s2", "u1") # <<>>
    /\ SessionOf(survey_states, "s2", "u1")[1].answered_questions = <<"q1">>

(***************************************************************************)
(* Concurrent submits to one session                                       *)
(***************************************************************************)
\* The session and the two responses after the calls ran in this order.
InOrder(first, second) ==
    LET survey == surveys["s1"]
        one == Submitted(survey, StartedSession(survey),
                         inflight[first].question_id, inflight[first].value)
        two == Submitted(survey, one.state,
                         inflight[second].question_id, inflight[second].value)
    IN /\ Current = <<two.state>>
       /\ inflight[first].response = one.response
       /\ inflight[second].response = two.response

C24_NoHalfAppliedEdit ==
    (/\ request.op \in {"add_question", "update_question", "delete_question",
                        "reorder_questions"}
     /\ response.status # 200
     /\ prior # <<>>) =>
        LET now == surveys[request.survey_id]
            before == prior[1]
        IN /\ Len(now.questions) = Len(before.questions)
           /\ GetNextQuestion(now, NewSurveyState).ret
                 = GetNextQuestion(before, NewSurveyState).ret
           /\ \A i \in 1..Len(before.questions), value \in AnswerValues :
                 ValidateAnswer(now.questions[i], value)
                     = ValidateAnswer(before.questions[i], value)

(***************************************************************************)
(* Skipped questions                                                       *)
(***************************************************************************)
\* C25: skip_question appends the question to skipped_questions and leaves
\* answered_questions and answers alone; get_next_question then returns no
\* skipped question and no question with a condition on a skipped question
\* that has no recorded answer.
C25_SkippedStaysUnavailable ==
    /\ request.op = "skip_question" =>
          /\ Len(Current[1].skipped_questions)
                = Len(prior[1].skipped_questions) + 1
          /\ SubSeq(Current[1].skipped_questions, 1,
                    Len(prior[1].skipped_questions)) = prior[1].skipped_questions
          /\ Current[1].answered_questions = prior[1].answered_questions
          /\ Current[1].answers = prior[1].answers
    /\ (request.op = "get_next_question" /\ response.question # <<>>) =>
          /\ response.question[1].id \notin Range(Current[1].skipped_questions)
          /\ \A i \in 1..Len(response.question[1].conditions) :
                LET on == response.question[1].conditions[i].previous_question_id
                IN on \in Range(Current[1].skipped_questions) =>
                      on \in DOMAIN Current[1].answers

(***************************************************************************)
(* Results aggregation.  main.py serves get_survey_results of the          *)
(* SurveyService in services/survey_service.py.  models/survey.py holds a  *)
(* second SurveyService, which keeps a SurveyResponse per survey and user  *)
(* and aggregates them in get_survey_analytics.  In SpecResults the        *)
(* variable responses is the store of that second class: a dict of         *)
(* insertion-ordered dicts, each a sequence of (key, value) entries.       *)
(***************************************************************************)
\* Longest answers list a SurveyResponse is driven to.
MaxRecorded == 2

\* Insertion-ordered dict: d[k] = v keeps the place of a key already there.
OrderedHas(d, k) == \E i \in 1..Len(d) : d[i].key = k
OrderedGet(d, k) == d[CHOOSE i \in 1..Len(d) : d[i].key = k].value
OrderedPut(d, k, v) ==
    IF OrderedHas(d, k)
    THEN [i \in 1..Len(d) |-> IF d[i].key = k THEN [key |-> k, value |-> v]
                              ELSE d[i]]
    ELSE Append(d, [key |-> k, value |-> v])
\* list(d.values())
OrderedValues(d) == [i \in 1..Len(d) |-> d[i].value]

\* SurveyResponse(survey_id, user_id, conversation_id, answers=[]); the
\* clock is not modelled: created_at is time 0, completed_at an Optional.
NewSurveyResponse ==
    [answers |-> <<>>, completed |-> FALSE, created_at |-> 0,
     completed_at |-> NoneOpt]

\* Answer(question_id, value)
RecordedAnswer(question_id, value) ==
    [question_id |-> question_id, value |-> value]

\* self.responses[survey_id][user_id], <<>> when a key is missing.
RecordOf(survey_id, user_id) ==
    IF survey_id \in DOMAIN responses /\ OrderedHas(responses[survey_id], user_id)
    THEN <<OrderedGet(responses[survey_id], user_id)>>
    ELSE <<>>

\* self.responses[survey_id][user_id] = record
StoreRecord(survey_id, user_id, record) ==
    LET of_survey == IF survey_id \in DOMAIN responses THEN responses[survey_id]
                     ELSE <<>>
    IN Put(responses, survey_id, OrderedPut(of_survey, user_id, record))

\* A returned dict of an aggregation call.
ResultsReturn(body) ==
    [status |-> 200, detail |-> "", question |-> <<>>, completed |-> FALSE,
     progress |-> NoProgress, results |-> body]

\* start_survey of the SurveyService in models/survey.py
RecordingStartSurvey(survey_id, user_id) ==
    /\ request' = Request("recording_start_survey", survey_id, user_id)
    /\ prior' = RecordOf(survey_id, user_id)
    /\ UNCHANGED <<surveys, inflight>>
    /\ IF survey_id \notin DOMAIN surveys
       THEN /\ response' = Failure(500, "ValueError")
            /\ UNCHANGED <<survey_states, responses>>
       ELSE LET first == GetNextQuestion(surveys[survey_id], NewSurveyState)
            IN /\ responses' = StoreRecord(survey_id, user_id, NewSurveyResponse)
               /\ survey_states' = StoreSession(survey_states, survey_id,
                                                user_id, first.state)
               /\ response' = IF first.raised
                              THEN Failure(500, "Internal Server Error")
                              ELSE [status |-> 200, detail |-> "",
                                    question |-> first.ret, completed |-> FALSE,
                                    progress |-> NoProgress]

\* submit_answer of the SurveyService in models/survey.py.  The answer is
\* validated against questions[current_question_idx] whatever its
\* question_id, appended to the record, and then the call ends in
\* AttributeError: SurveyState defines no mark_question_completed.  The
\* rest of the method (index advance, next question, response.complete())
\* never runs.
RecordingSubmitAnswer(survey_id, user_id, question_id, value) ==
    /\ request' = Request("recording_submit_answer", survey_id, user_id)
    /\ prior' = RecordOf(survey_id, user_id)
    /\ UNCHANGED <<surveys, survey_states, inflight>>
    /\ IF survey_id \notin DOMAIN surveys
       THEN /\ response' = Failure(500, "ValueError")
            /\ UNCHANGED responses
       ELSE IF SessionOf(survey_states, survey_id, user_id) = <<>>
       THEN /\ response' = Failure(500, "KeyError")
            /\ UNCHANGED responses
       ELSE LET survey == surveys[survey_id]
                state == SessionOf(survey_states, survey_id, user_id)[1]
                record == RecordOf(survey_id, user_id)[1]
            IN IF state.current_question_idx + 1 > Len(survey.questions)
               THEN /\ response' = Failure(500, "IndexError")
                    /\ UNCHANGED responses
               ELSE LET valid == ValidateAnswer(
                                   survey.questions[state.current_question_idx + 1],
                                   value)
                    IN IF valid.raised
                       THEN /\ response' = Failure(500, "Internal Server Error")
                            /\ UNCHANGED responses
                       ELSE IF ~valid.val
                       THEN /\ response' = Failure(500, "ValueError")
                            /\ UNCHANGED responses
                       ELSE /\ responses' = StoreRecord(survey_id, user_id,
                                   [record EXCEPT !.answers =
                                       Append(@, RecordedAnswer(question_id, value))])
                            /\ response' = Failure(500, "AttributeError")

RECURSIVE SumSeq(_)
SumSeq(seq) == IF seq = <<>> THEN 0 ELSE Head(seq) + SumSeq(Tail(seq))

RECURSIVE Flatten(_)
Flatten(seqs) == IF seqs = <<>> THEN <<>> ELSE Head(seqs) \o Flatten(Tail(seqs))

\* Every answer of the responses, response by response.
AnswersOf(records) ==
    Flatten([i \in 1..Len(records) |-> records[i].answers])

\* [a.value for a in answers]
ValuesOf(answers) == [i \in 1..Len(answers) |-> answers[i].value]

\* The two Python containers an aggregate puts under a question id: a list
\* of values, or a Counter (value -> count).
PyList(items) == [type |-> "list", items |-> items]
PyCounter(counts) == [type |-> "Counter", counts |-> counts]

\* get_survey_analytics, from the responses found to the returned dict.
\* Times are whole seconds and the average is taken with integer division.
SurveyAnalytics(records) ==
    LET total_responses == Len(records)
        completed == SelectSeq(records, LAMBDA r : r.completed)
        timed == SelectSeq(completed, LAMBDA r : r.completed_at.some)
        completion_times ==
            [i \in 1..Len(timed) |-> timed[i].completed_at.v - timed[i].created_at]
        recorded == AnswersOf(records)
    IN [total_responses |-> total_responses,
        completed_responses |-> Len(completed),
        completion_rate |->
            IF total_responses > 0
            THEN (Len(completed) * 100) \div total_responses ELSE 0,
        average_completion_time_seconds |->
            IF completion_times # <<>>
            THEN SumSeq(completion_times) \div Len(completion_times) ELSE 0,
        answer_distribution |->
            [id \in {a.question_id : a \in Range(recorded)} |->
                PyList(ValuesOf(SelectSeq(recorded,
                                          LAMBDA a : a.question_id = id)))]]

\* get_survey_analytics of the SurveyService in models/survey.py
GetSurveyAnalytics(survey_id) ==
    /\ request' = Request("get_survey_analytics", survey_id, "")
    /\ prior' = <<>>
    /\ UNCHANGED <<surveys, survey_states, responses, inflight>>
    /\ response' = IF survey_id \notin DOMAIN responses
                   THEN ResultsReturn(EmptyDict)
                   ELSE ResultsReturn(
                            SurveyAnalytics(OrderedValues(responses[survey_id])))

\* collections.Counter(values)
Counter(values) ==
    [v \in Range(values) |-> Len(SelectSeq(values, LAMBDA x : x = v))]

\* next((a for a in response.answers if a.question_id == id), None),
\* kept when found: the values of the first answer of each response.
FirstAnswers(records, id) ==
    LET found == SelectSeq(records,
                     LAMBDA r : \E i \in 1..Len(r.answers) :
                                   r.answers[i].question_id = id)
    IN [i \in 1..Len(found) |->
           SelectSeq(found[i].answers, LAMBDA a : a.question_id = id)[1].value]

\* get_survey_results, from "if not responses" to the returned dict.
SurveyResults(survey, records) ==
    IF records = <<>> THEN [message |-> "No responses found"]
    ELSE LET completed == SelectSeq(records, LAMBDA r : r.completed)
         IN [total_responses |-> Len(records),
             completed_responses |-> Len(completed),
             completion_rate |-> IF Len(records) > 0
                                 THEN (Len(completed) * 100) \div Len(records)
                                 ELSE 0,
             question_analysis |->
                [id \in {q.id : q \in Range(survey.questions)} |->
                    LET q == CHOOSE x \in Range(survey.questions) : x.id = id
                    IN IF q.type \in {"scale", "multiple_choice"}
                       THEN [type |-> q.type,
                             distribution |->
                                 PyCounter(Counter(FirstAnswers(records, id)))]
                       ELSE [type |-> q.type,
                             responses |-> PyList(FirstAnswers(records, id))]]]

\* The attributes SurveyService.__init__ of services/survey_service.py
\* assigns: no responses store.
ServiceAttributes == {"surveys", "survey_states"}

\* get_survey_results of the SurveyService main.py serves
GetSurveyResults(survey_id) ==
    /\ request' = Request("get_survey_results", survey_id, "")
    /\ prior' = <<>>
    /\ UNCHANGED <<surveys, survey_states, responses, inflight>>
    /\ response' = IF survey_id \notin DOMAIN surveys
                   THEN Failure(404, "Survey not found")
                   ELSE IF "responses" \notin ServiceAttributes
                   THEN Failure(500, "AttributeError")
                   ELSE ResultsReturn(SurveyResults(surveys[survey_id], <<>>))

ResultsSurveyIds == {"s1", "s9"}
ResultsUserIds == {"u1", "u2"}
ResultsQuestionIds == {"q1", "q2"}
ResultsAnswerValues == {Num(3), Num(5), Str("Poor")}

InitResults ==
    /\ surveys = Put(EmptyDict, "s1",
                     [id |-> "s1", questions |-> ScaleBranchingData.questions])
    /\ survey_states = EmptyDict
    /\ responses = EmptyDict
    /\ inflight = <<>>
    /\ request = Request("init", "", "")
    /\ response = Failure(0, "")
    /\ prior = <<>>

WithinRecordedBound(survey_id, user_id) ==
    LET record == RecordOf(survey_id, user_id)
    IN record # <<>> => Len(record[1].answers) < MaxRecorded

NextResults ==
    \/ \E survey_id \in ResultsSurveyIds, user_id \in ResultsUserIds :
          RecordingStartSurvey(survey_id, user_id)
    \/ \E survey_id \in ResultsSurveyIds, user_id \in ResultsUserIds,
          question_id \in ResultsQuestionIds, value \in ResultsAnswerValues :
          /\ WithinRecordedBound(survey_id, user_id)
          /\ RecordingSubmitAnswer(survey_id, user_id, question_id, value)
    \/ \E survey_id \in ResultsSurveyIds : GetSurveyAnalytics(survey_id)
    \/ \E survey_id \in ResultsSurveyIds : GetSurveyResults(survey_id)

SpecResults == InitResults /\ [][NextResults]_vars

\* The last call was an aggregation of a survey the service holds.
Aggregated ==
    /\ request.op \in {"get_survey_results", "get_survey_analytics"}
    /\ request.survey_id \in DOMAIN surveys

\* Every SurveyResponse recorded for the survey, in insertion order.
RecordsOf(survey_id) ==
    IF survey_id \in DOMAIN responses THEN OrderedValues(responses[survey_id])
    ELSE <<>>

\* C26: an aggregation never raises, its completion_rate is
\* completed / total * 100, and for a survey with zero responses it returns
\* completion_rate = 0 and average_completion_time = 0.
C26_AggregationGuardsDivision ==
    Aggregated =>
        LET records == RecordsOf(request.survey_id)
            completed == Len(SelectSeq(records, LAMBDA r : r.completed))
        IN /\ response.status = 200
           /\ "completion_rate" \in DOMAIN response.results
           /\ records # <<>> =>
                response.results.completion_rate * Len(records) = completed * 100
           /\ records = <<>> =>
                /\ response.results.completion_rate = 0
                /\ \E key \in {"average_completion_time",
                               "average_completion_time_seconds"} :
                      /\ key \in DOMAIN response.results
                      /\ response.results[key] = 0

\* What an aggregate reports under a question id: its distribution, an
\* empty Counter when the id is not reported at all.
DistributionOf(results, id) ==
    IF "question_analysis" \in DOMAIN results
    THEN results.question_analysis[id].distribution
    ELSE IF /\ "answer_distribution" \in DOMAIN results
            /\ id \in DOMAIN results.answer_distribution
    THEN results.answer_distribution[id]
    ELSE PyCounter(EmptyDict)

\* Recorded answers of the question with this value, over all responses.
RecordedCount(records, id, v) ==
    Len(SelectSeq(AnswersOf(records),
                  LAMBDA a : a.question_id = id /\ a.value = v))

\* C27: an aggregation returns, for every scale or multiple_choice
\* question, a value -> count distribution in which the count of each value
\* is the number of recorded answers with that value for that question id
\* across all responses of the survey; with every response completed the
\* completion_rate is 100.
C27_DistributionCountsAnswers ==
    Aggregated =>
        LET records == RecordsOf(request.survey_id)
        IN /\ response.status = 200
           /\ \A q \in Range(surveys[request.survey_id].questions) :
                q.type \in {"scale", "multiple_choice"} =>
                  LET dist == DistributionOf(response.results, q.id)
                  IN /\ dist.type = "Counter"
                     /\ \A v \in ResultsAnswerValues :
                          (IF v \in DOMAIN dist.counts THEN dist.counts[v] ELSE 0)
                            = RecordedCount(records, q.id, v)
           /\ (records # <<>> /\ \A r \in Range(records) : r.completed) =>
                response.results.completion_rate = 100

(***************************************************************************)
(* Branching scenarios                                                     *)
(***************************************************************************)
\* The last call was an accepted submit_answer of a session that had
\* answered nothing, and it recorded this value for q1.
FreshSubmitOfQ1(value) ==
    /\ AcceptedSubmit
    /\ prior # <<>>
    /\ prior[1].answered_questions = <<>>
    /\ ~prior[1].is_structured_complete
    /\ Current[1].answered_questions = <<"q1">>
    /\ Current[1].answers["q1"] = value

\* C28: in the survey q1 (scale 1-5), q2 (multiple_choice, condition q1
\* greater_than 2), final q3, a fresh session that submits q1 = 1 gets q3
\* as next question with is_structured_complete true, and one that submits
\* q1 = 4 gets q2.
C28_ScaleBranching ==
    (/\ request.survey_id \in DOMAIN surveys
     /\ surveys[request.survey_id].questions = ScaleBranchingData.questions) =>
        /\ FreshSubmitOfQ1(Num(1)) =>
              /\ response.question # <<>>
              /\ response.question[1].id = "q3"
              /\ Current[1].is_structured_complete
        /\ FreshSubmitOfQ1(Num(4)) =>
              /\ response.question # <<>>
              /\ response.question[1].id = "q2"

C28_Witness ==
    /\ request.survey_id \in DOMAIN surveys
    /\ surveys[request.survey_id].questions = ScaleBranchingData.questions
    /\ FreshSubmitOfQ1(Num(1))
    /\ response.question # <<>>
    /\ response.question[1].id = "q3"
    /\ Current[1].is_structured_complete

\* The session answered q1 = 4 and then q2 = "Poor", skipped nothing, and
\* get_next_question was called on it.
NestedPathTaken ==
    /\ surveys["s1"] = NestedBranchingSurvey
    /\ request.op = "get_next_question"
    /\ Current[1].answered_questions = <<"q1", "q2">>
    /\ Current[1].answers["q1"] = Num(4)
    /\ Current[1].answers["q2"] = Str("Poor")
    /\ Current[1].skipped_questions = <<>>

\* C29: in the scale-branching survey extended with q4 (text, condition q2
\* equals "Poor"), a session that submitted q1 = 4 and then q2 = "Poor" gets
\* q4 as the next question, before the final question.
C29_NestedBranching ==
    NestedPathTaken =>
        /\ response.status = 200
        /\ response.question # <<>>
        /\ response.question[1].id = "q4"
        /\ ~response.question[1].is_final
        /\ "q3" \notin Range(Current[1].answered_questions)

C29_Witness ==
    /\ NestedPathTaken
    /\ response.question # <<>>
    /\ response.question[1].id = "q4"

(***************************************************************************)
(* Termination of get_next_question                                        *)
(***************************************************************************)
\* Mutant of the recursion: the call re-invokes itself without having set
\* is_structured_complete.
RECURSIVE ReinvocationsUnflagged(_, _, _)
ReinvocationsUnflagged(survey, state, made) ==
    IF made > Len(survey.questions) + 1 THEN made
    ELSE IF state.is_complete \/ state.is_structured_complete THEN made
    ELSE LET scan == ScanPending(PendingQuestions(survey, state), 1, state.answers)
         IN IF scan.raised \/ scan.ret # <<>> THEN made
            ELSE ReinvocationsUnflagged(survey, state, made + 1)

\* How often one top-level get_next_question(state) calls itself, counted
\* along the control flow of the method: `made` calls so far.  Counting
\* stops beyond len(questions) + 1, which is above both bounds in question.
RECURSIVE Reinvocations(_, _, _)
Reinvocations(survey, state, made) ==
    IF made > Len(survey.questions) + 1 THEN made
    ELSE IF state.is_complete \/ state.is_structured_complete THEN made
    ELSE LET scan == ScanPending(PendingQuestions(survey, state), 1, state.answers)
         IN IF scan.raised \/ scan.ret # <<>> THEN made
            ELSE Reinvocations(survey,
                               [state EXCEPT !.is_structured_complete = TRUE],
                               made + 1)

\* The (survey, state) pairs the service would call get_next_question on
\* from here: a new state in start_survey, a stored state with one more
\* answer in a submit_answer that passes its checks.
GetNextInputs ==
    {<<surveys[survey_id], NewSurveyState>> : survey_id \in DOMAIN surveys}
    \cup
    {<<surveys[call[1]],
       AddAnswer(survey_states[call[1]][call[2]], call[3], call[4])>> :
        call \in {c \in SurveyIds \X UserIds \X QuestionIds \X AnswerValues :
                     SubmitChecks(c[1], c[2], c[3], c[4]) = <<>>}}

\* C30: get_next_question returns or raises for every survey and session
\* state it is called on, and within one top-level call it re-invokes
\* itself at most once.
C30_ReinvokesAtMostOnce ==
    \A input \in GetNextInputs :
        /\ GetNextQuestion(input[1], input[2]).raised \in BOOLEAN
        /\ Reinvocations(input[1], input[2], 0) <= 1

\* C30 as stated: the re-invocations are also never more than the number
\* of questions of the survey.
C30_ReinvokesWithinQuestionCount ==
    \A input \in GetNextInputs :
        /\ Reinvocations(input[1], input[2], 0) <= 1
        /\ Reinvocations(input[1], input[2], 0) <= Len(input[1].questions)

\* A submit_answer whose get_next_question found the structured phase over
\* and re-invoked itself: the flag was set during the call.
C30_Witness ==
    /\ AcceptedSubmit
    /\ prior # <<>>
    /\ ~prior[1].is_structured_complete
    /\ Current[1].is_structured_complete
    /\ \E question_id \in QuestionIds, value \in AnswerValues :
          /\ Current[1] = [GetNextQuestion(surveys[request.survey_id],
                               AddAnswer(prior[1], question_id, value)).state
                           EXCEPT !.is_complete = Current[1].is_complete]
          /\ Reinvocations(surveys[request.survey_id],
                           AddAnswer(prior[1], question_id, value), 0) = 1

(***************************************************************************)
(* Answer recording                                                        *)
(***************************************************************************)
\* C31: every accepted submit_answer leaves the ids of answered_questions
\* equal to the key set of answers, records the submitted value under the
\* submitted question id (the most recent accepted submit wins) and changes
\* no other question's recorded value.
C31_AnswerRecording ==
    [][\A i \in DOMAIN inflight :
          (/\ inflight[i].pc = "pending"
           /\ inflight'[i].pc = "done"
           /\ response'.status = 200) =>
             LET before == survey_states["s1"]["u1"]
                 after == survey_states'["s1"]["u1"]
                 q == inflight[i].question_id
             IN /\ Range(after.answered_questions) = DOMAIN after.answers
                /\ after.answered_questions = Append(before.answered_questions, q)
                /\ DOMAIN after.answers = DOMAIN before.answers \cup {q}
                /\ after.answers[q] = inflight[i].value
                /\ \A k \in DOMAIN before.answers \ {q} :
                      after.answers[k] = before.answers[k]]_vars

\* Two accepted submits for one question with different values: the session
\* holds the value of the one handled last.
C31_Witness ==
    /\ inflight # <<>>
    /\ \A i \in DOMAIN inflight :
          inflight[i].pc = "done" /\ inflight[i].response.status = 200
    /\ inflight[1].question_id = inflight[2].question_id
    /\ inflight[1].value # inflight[2].value
    /\ Len(survey_states["s1"]["u1"].answered_questions) = 2
    /\ survey_states["s1"]["u1"].answers[inflight[1].question_id]
          \in {inflight[1].value, inflight[2].value}

(***************************************************************************)
(* Sessions of a survey that grows: start_survey and submit_answer         *)
(* together with add_question on the survey of the session.                *)
(***************************************************************************)
\* q1 and the final question only.
ShortFinalSurvey ==
    [id |-> "s1",
     questions |-> <<
        Question("q1", 0, "scale", FALSE, TRUE, NoneOpt, Some(<<1, 5>>), <<>>),
        Question("q3", 1, "text", TRUE, TRUE, NoneOpt, NoneOpt, <<>>) >>]

\* q1 and a question blocked unless q1 > 2; no final question.
BlockedPairSurvey ==
    [id |-> "s1",
     questions |-> <<
        Question("q1", 0, "scale", FALSE, TRUE, NoneOpt, Some(<<1, 5>>), <<>>),
        Question("q2", 1, "text", FALSE, TRUE, NoneOpt, NoneOpt,
                 <<Condition("q1", "greater_than", Num(2))>>) >>]

GrowingSurveys == {ShortFinalSurvey, BlockedPairSurvey}
GrowingQuestionIds == {"q1", "q2", "q3", "n1"}
GrowingAnswerValues == {Num(1), Num(4)}

InitGrowing ==
    /\ surveys \in {Put(EmptyDict, "s1", survey) : survey \in GrowingSurveys}
    /\ survey_states = EmptyDict
    /\ responses = EmptyDict
    /\ inflight = <<>>
    /\ request = Request("init", "", "")
    /\ response = Failure(0, "")
    /\ prior = <<>>

NextGrowing ==
    \/ StartSurvey("s1", "u1")
    \/ \E question_id \in GrowingQuestionIds, value \in GrowingAnswerValues :
          /\ WithinBound("s1", "u1")
          /\ SubmitAnswer("s1", "u1", question_id, value)
          /\ UNCHANGED inflight
    \/ \E body \in AddQuestionBodies : AddQuestion("s1", body)

SpecGrowing == InitGrowing /\ [][NextGrowing]_vars

\* get_next_question gave no non-final question.
NoneOrFinal(question) == question = <<>> \/ question[1].is_final

\* C32: once is_structured_complete is true for a session, neither a
\* submit_answer on it nor get_next_question on its stored state returns a
\* non-final question, whatever answers were accepted and whatever questions
\* were added to the survey since.
C32_StructuredPhaseStaysClosed ==
    /\ (AcceptedSubmit /\ prior # <<>> /\ prior[1].is_structured_complete) =>
          NoneOrFinal(response.question)
    /\ \A survey_id \in DOMAIN survey_states :
          \A user_id \in DOMAIN survey_states[survey_id] :
             LET state == survey_states[survey_id][user_id]
                 next == GetNextQuestion(surveys[survey_id], state)
             IN state.is_structured_complete =>
                   ~next.raised /\ NoneOrFinal(next.ret) /\ next.state = state

\* An accepted submit on a session whose structured phase was over, while
\* the survey holds an unanswered non-final question whose conditions hold.
C32_Witness ==
    /\ AcceptedSubmit
    /\ prior # <<>>
    /\ prior[1].is_structured_complete
    /\ NoneOrFinal(response.question)
    /\ \E i \in 1..Len(surveys["s1"].questions) :
          LET q == surveys["s1"].questions[i]
          IN /\ ~q.is_final
             /\ q.id \notin Range(Current[1].answered_questions)
             /\ ShouldShow(q, Current[1].answers) = Ret(TRUE)

(***************************************************************************)
(* A client that follows the survey: it starts one session and then keeps  *)
(* submitting a value validate_answer accepts for the question the last    *)
(* call returned.                                                          *)
(***************************************************************************)
ClientSurveys ==
    {[id |-> "s1", questions |-> ScaleBranchingData.questions],
     [id |-> "s1", questions |-> ConditionalFinalData.questions],
     NestedBranchingSurvey,
     TieOrderSurvey}

ClientSurveyIds == {DefaultSurveyId, "s1"}

ClientAnswerValues ==
    {Num(1), Num(4), Str("4"), Str("Good"), Str("Poor"),
     Str("Met expectations"), Str("Below expectations"), Str("Price"),
     Str("Other")}

\* The service as constructed, with one more survey created.
InitClient ==
    /\ surveys \in {Put(Put(EmptyDict, DefaultSurveyId, DefaultSurvey),
                        "s1", survey) : survey \in ClientSurveys}
    /\ survey_states = EmptyDict
    /\ responses = EmptyDict
    /\ inflight = <<>>
    /\ request = Request("init", "", "")
    /\ response = Failure(0, "")
    /\ prior = <<>>

\* The client's one start_survey.
ClientStart(survey_id) ==
    /\ request.op = "init"
    /\ StartSurvey(survey_id, "u1")

\* The client answers the question the last call returned.
ClientSubmit(value) ==
    /\ request.op \in {"start_survey", "submit_answer"}
    /\ response.status = 200
    /\ response.question # <<>>
    /\ ValidateAnswer(response.question[1], value) = Ret(TRUE)
    /\ SubmitAnswer(request.survey_id, "u1", response.question[1].id, value)
    /\ UNCHANGED inflight

NextClient ==
    \/ \E survey_id \in ClientSurveyIds : ClientStart(survey_id)
    \/ \E value \in ClientAnswerValues : ClientSubmit(value)

SpecClient == InitClient /\ [][NextClient]_vars

\* The client's session was started.
ClientStarted ==
    /\ request.op \in {"start_survey", "submit_answer"}
    /\ Current # <<>>

\* The questions the client was asked so far, in order: the ones it
\* answered and the one the last call returned.
Asked ==
    Current[1].answered_questions
        \o (IF response.status = 200 /\ response.question # <<>>
            THEN <<response.question[1].id>> ELSE <<>>)

\* The client can go on: it has not started yet, or the last call returned
\* a question and some value is valid for it.
ClientCanMove ==
    \/ request.op = "init"
    \/ /\ request.op \in {"start_survey", "submit_answer"}
       /\ response.status = 200
       /\ response.question # <<>>
       /\ \E value \in ClientAnswerValues :
             ValidateAnswer(response.question[1], value) = Ret(TRUE)

\* C33: for a fixed survey with N questions, a client that after an
\* accepted start_survey keeps submitting a valid answer to the question
\* last returned is asked no question twice, makes at most N submissions,
\* and is never left short of is_complete without a question to answer: its
\* session reaches is_complete.
C33_ClientReachesCompletion ==
    (ClientStarted /\ (request.op = "start_survey" => response.status = 200)) =>
        /\ NoRepeat(Asked)
        /\ Len(Current[1].answered_questions)
              <= Len(surveys[request.survey_id].questions)
        /\ Current[1].is_complete \/ ClientCanMove

(***************************************************************************)
(* Session invariants                                                      *)
(***************************************************************************)
\* C34: in every session the store holds, is_complete implies
\* is_structured_complete.
C34_CompleteImpliesStructuredComplete ==
    \A pair \in Sessions :
        LET state == survey_states[pair[1]][pair[2]]
        IN state.is_complete => state.is_structured_complete

\* A submit_answer has just completed a session.
C34_Witness ==
    /\ AcceptedSubmit
    /\ response.completed
    /\ prior # <<>>
    /\ ~prior[1].is_complete
    /\ Current[1].is_complete
    /\ Current[1].is_structured_complete

\* C35: the question start_survey or submit_answer returns is never one
\* whose id is in the session's answered_questions.
C35_ReturnedQuestionUnanswered ==
    (/\ request.op \in {"start_survey", "submit_answer"}
     /\ response.status = 200
     /\ response.question # <<>>) =>
        /\ Current # <<>>
        /\ response.question[1].id \notin Range(Current[1].answered_questions)

\* A question is returned to a session that answered one question twice.
C35_Witness ==
    /\ AcceptedSubmit
    /\ response.question # <<>>
    /\ ~NoRepeat(Current[1].answered_questions)
    /\ response.question[1].id \notin Range(Current[1].answered_questions)

\* C36: get_next_question changes nothing of the state but
\* is_structured_complete, which it may turn from false to true, and
\* calling it again on the state it leaves returns the same question.
C36_GetNextQuestionFrame ==
    \A input \in GetNextInputs :
        LET state == input[2]
            next == GetNextQuestion(input[1], state)
            again == GetNextQuestion(input[1], next.state)
        IN /\ next.state = [state EXCEPT !.is_structured_complete =
                                          next.state.is_structured_complete]
           /\ state.is_structured_complete => next.state.is_structured_complete
           /\ next.raised => next.state = state
           /\ again.raised = next.raised
           /\ again.ret = next.ret
           /\ again.state = next.state

\* A submit_answer whose get_next_question set is_structured_complete and
\* returned the final question, with answers recorded in the session.
C36_Witness ==
    /\ AcceptedSubmit
    /\ prior # <<>>
    /\ ~prior[1].is_structured_complete
    /\ Current[1].is_structured_complete
    /\ response.question # <<>>
    /\ response.question[1].is_final
    /\ Current[1].answered_questions # <<>>
    /\ \E question_id \in QuestionIds, value \in AnswerValues :
          Current[1] = [AddAnswer(prior[1], question_id, value)
                           EXCEPT !.is_structured_complete = TRUE]

\* C37: a start_survey that fails leaves the session of its (survey, user)
\* pair as it was before the call: none is created, none is replaced.
C37_FailedStartKeepsStore ==
    (request.op = "start_survey" /\ response.status # 200) =>
        Current = prior

\* C38: in every progress snapshot start_survey or submit_answer returns,
\* answered (the length of answered_questions) is at most total (the number
\* of non-final questions of the survey).
C38_ProgressWithinTotal ==
    (/\ request.op \in {"start_survey", "submit_answer"}
     /\ response.status = 200
     /\ response.question # <<>>) =>
        /\ response.progress.answered = Len(Current[1].answered_questions)
        /\ response.progress.total = TotalQuestions(surveys[request.survey_id])
        /\ response.progress.answered <= response.progress.total

(***************************************************************************)
(* The built-in survey                                                     *)
(***************************************************************************)
\* The client's session is on the built-in survey.
OnDefaultSurvey ==
    /\ ClientStarted
    /\ request.survey_id = DefaultSurveyId

\* The position of a question id in the built-in survey's list.
DefaultPosition(id) ==
    CHOOSE i \in 1..Len(DefaultSurvey.questions) :
        DefaultSurvey.questions[i].id = id

\* The session recorded this answer to the question.
AnsweredWith(id, value) ==
    /\ id \in DOMAIN Current[1].answers
    /\ Current[1].answers[id] = value

AnsweredAbove(id, n) ==
    /\ id \in DOMAIN Current[1].answers
    /\ Float(Current[1].answers[id]) > n

\* C39: on the built-in survey a session that answers each returned question
\* validly is asked q1 first, always in ascending order, q2 and q4 only if
\* q1 > 2, q3 only if q2 = "Poor", q5 only if q4 = "Below expectations", q7
\* only if q6 = "Other", q6 in every case before q8, and q8 exactly once, as
\* the last question before completion.
C39_DefaultSurveyFlow ==
    OnDefaultSurvey =>
        /\ response.status = 200
        /\ Asked # <<>>
        /\ Asked[1] = "q1"
        /\ \A i, j \in 1..Len(Asked) :
              i < j => DefaultPosition(Asked[i]) < DefaultPosition(Asked[j])
        /\ "q2" \in Range(Asked) => AnsweredAbove("q1", 2)
        /\ "q4" \in Range(Asked) => AnsweredAbove("q1", 2)
        /\ "q3" \in Range(Asked) => AnsweredWith("q2", Str("Poor"))
        /\ "q5" \in Range(Asked) => AnsweredWith("q4", Str("Below expectations"))
        /\ "q7" \in Range(Asked) => AnsweredWith("q6", Str("Other"))
        /\ "q8" \in Range(Asked) => "q6" \in Range(Asked)
        /\ Current[1].is_complete <=>
              (response.question = <<>> /\ Asked[Len(Asked)] = "q8")
        /\ response.completed <=> Current[1].is_complete

\* A session on the built-in survey completed after being asked all eight
\* questions.
C39_Witness ==
    /\ OnDefaultSurvey
    /\ response.completed
    /\ Current[1].answered_questions =
          <<"q1", "q2", "q3", "q4", "q5", "q6", "q7", "q8">>

====
